---------------------------- MODULE Spec2Model ----------------------------
(***************************************************************************)
(* A model of the ARI text codec of dtnma-tools: the lexical primitives   *)
(* and time codecs of ari_text_util.c, the tree walker, translator, hash  *)
(* and equality of ari_algo.c, and the text encoder of ari_text_enc.c.    *)
(*                                                                         *)
(* Bytes and the characters of byte-oriented text (base64, percent and    *)
(* slash escapes) are integers 0..255 (ASCII codes for text).  The text   *)
(* of the time codecs and of the encoder is a sequence of one-character   *)
(* strings.  Each codec has one variable, the frame of a caller that      *)
(* encodes a value and decodes the text again.                            *)
(***************************************************************************)
EXTENDS Integers, Sequences, FiniteSets, TLC

VARIABLES b64, pct, sl, td, tp, alg, enc, reg, i64

vars == <<b64, pct, sl, td, tp, alg, enc, reg, i64>>

\* The frames a specification leaves alone.
NotB64 == <<pct, sl, td, tp, alg, enc, reg, i64>>
NotPct == <<b64, sl, td, tp, alg, enc, reg, i64>>
NotSl  == <<b64, pct, td, tp, alg, enc, reg, i64>>
NotTd  == <<b64, pct, sl, tp, alg, enc, reg, i64>>
NotTp  == <<b64, pct, sl, td, alg, enc, reg, i64>>
NotAlg == <<b64, pct, sl, td, tp, enc, reg, i64>>
NotEnc == <<b64, pct, sl, td, tp, alg, reg, i64>>
NotReg == <<b64, pct, sl, td, tp, alg, enc, i64>>
NotI64 == <<b64, pct, sl, td, tp, alg, enc, reg>>

\* A frame whose codec is not exercised by the specification at hand.
B64Idle == [pc |-> "idle", in |-> <<>>, useurl |-> FALSE, text |-> <<>>,
            out |-> <<>>, rc |-> 0]

PctIdle == [pc |-> "idle", b |-> <<>>, term |-> FALSE, after |-> 0,
            safe |-> <<>>, text |-> <<>>, out |-> <<>>, rc |-> 0]

SlIdle == [pc |-> "idle", t |-> <<>>, quote |-> 34, text |-> <<>>,
           out |-> <<>>, rc |-> 0]

TdIdle == [pc |-> "idle", in |-> <<>>, text |-> <<>>, out |-> <<>>, rc |-> 0]

TpIdle == [pc |-> "idle", in |-> <<>>, usesep |-> FALSE, text |-> <<>>,
           out |-> <<>>, rc |-> 0]

AlgIdle == [pc |-> "idle"]

EncIdle == [pc |-> "idle"]

RegIdle == [ctrl |-> "idle"]

I64Idle == [pc |-> "idle"]

\* All sequences over S of length at most n.
SeqsUpTo(S, n) == UNION {[1..k -> S] : k \in 0..n}

\* The characters of a string.
Chars(s) == [k \in 1..Len(s) |-> SubSeq(s, k, k)]

\* The one element of a set.  A result that is used more than once is
\* bound as  The({e(res) : res \in {...}}),  which computes it once.
The(S) == CHOOSE v \in S : TRUE

(***************************************************************************)
(* base64_encode / base64_decode                                           *)
(***************************************************************************)

\* Longest byte string handed to base64_encode.
MaxB64Len == 4

\* Bytes of the inputs: 0xFB and 0xFF reach the alphabet positions 62 and 63
\* in which the two alphabets differ.
B64Bytes == {0, 65, 251, 255}

\* base64_alphabet[ix] and base64url_alphabet[ix], ix in 0..63.
Base64AlphabetBad(ix, useurl) ==
    IF ix < 26 THEN 65 + ix
    ELSE IF ix < 52 THEN 97 + (ix - 26)
    ELSE IF ix < 62 THEN 48 + (ix - 52)
    ELSE IF ix = 62 THEN (IF useurl THEN 45 ELSE 43)
    ELSE (IF useurl THEN 126 ELSE 47)

Base64Alphabet(ix, useurl) ==
    IF ix < 26 THEN 65 + ix
    ELSE IF ix < 52 THEN 97 + (ix - 26)
    ELSE IF ix < 62 THEN 48 + (ix - 52)
    ELSE IF ix = 62 THEN (IF useurl THEN 45 ELSE 43)
    ELSE (IF useurl THEN 95 ELSE 47)

\* The character '='.
IsPad(c) == c = 61

\* One pass of the for loop of base64_encode over the group at in[i..i+2];
\* in_len and out_len are the counters of the source, decremented as there.
RECURSIVE B64EncLoop(_, _, _, _, _, _)
B64EncLoop(in, i, in_len, out_len, out, useurl) ==
    IF i > Len(in) THEN out
    ELSE
      LET c0   == Base64Alphabet(in[i] \div 4, useurl)
          il1  == in_len - 1
          out1 == Append(out, c0)
          ol1  == out_len - 1
          c1   == Base64Alphabet(((in[i] * 16) % 64)
                      + (IF il1 # 0 THEN in[i + 1] \div 16 ELSE 0), useurl)
          out2 == Append(out1, c1)
          ol2  == ol1 - 1
          il2  == IF il1 # 0 THEN il1 - 1 ELSE il1
          c2   == IF il1 # 0
                  THEN Base64Alphabet(((in[i + 1] * 4) % 64)
                      + (IF il2 # 0 THEN in[i + 2] \div 64 ELSE 0), useurl)
                  ELSE 61
          out3 == Append(out2, c2)
          ol3  == ol2 - 1
          il3  == IF il2 # 0 THEN il2 - 1 ELSE il2
          c3   == IF il2 # 0 THEN Base64Alphabet(in[i + 2] % 64, useurl)
                  ELSE 61
          out4 == Append(out3, c3)
          ol4  == ol3 - 1
      IN IF ol1 = 0 THEN out1
         ELSE IF ol2 = 0 THEN out2
         ELSE IF ol3 = 0 THEN out3
         ELSE IF ol4 = 0 THEN out4
         ELSE B64EncLoop(in, i + 3, il3, ol4, out4, useurl)

\* base64_encode: the text appended to out (the return code is always 0).
Base64Encode(in, useurl) ==
    B64EncLoop(in, 1, Len(in), ((Len(in) + 2) \div 3) * 4, <<>>, useurl)

\* base64_decode_table, indexed from 1 (entry chr + 1 is the value of chr).
Base64DecodeTable ==
  << -1, -1, -1, -1, -1, -1, -1, -1, -1, -2, -2, -2, -2, -2, -1, -1,
     -1, -1, -1, -1, -1, -1, -1, -1, -1, -1, -1, -1, -1, -1, -1, -1,
     -2, -1, -1, -1, -1, -1, -1, -1, -1, -1, -1, 62, -1, 62, -1, 63,
     52, 53, 54, 55, 56, 57, 58, 59, 60, 61, -1, -1, -1, -1, -1, -1,
     -1,  0,  1,  2,  3,  4,  5,  6,  7,  8,  9, 10, 11, 12, 13, 14,
     15, 16, 17, 18, 19, 20, 21, 22, 23, 24, 25, -1, -1, -1, -1, 63,
     -1, 26, 27, 28, 29, 30, 31, 32, 33, 34, 35, 36, 37, 38, 39, 40,
     41, 42, 43, 44, 45, 46, 47, 48, 49, 50, 51, -1, -1, -1, -1, -1 >>

Base64DecodeChar(chr) ==
    IF chr >= 128 THEN -1 ELSE Base64DecodeTable[chr + 1]

\* in[i], or the terminating NUL of the string when i is one past its end.
CharAt(in, i) == IF i <= Len(in) THEN in[i] ELSE 0

\* The for loop of base64_decode from the group at in[i..i+3], with in_len
\* characters left.  Yields the bytes written, the cursor and in_len at the
\* loop's exit, and err = TRUE for the `return 3` exits.
RECURSIVE B64DecLoop(_, _, _, _)
B64DecLoop(in, i, in_len, out) ==
    LET stop(o) == [out |-> o, i |-> i, in_len |-> in_len, err |-> FALSE]
        fail(o) == [out |-> o, i |-> i, in_len |-> in_len, err |-> TRUE]
        c0   == CharAt(in, i)
        c1   == CharAt(in, i + 1)
        c2   == CharAt(in, i + 2)
        c3   == CharAt(in, i + 3)
        seg0 == Base64DecodeChar(c0)
        seg1 == Base64DecodeChar(c1)
        seg2 == Base64DecodeChar(c2)
        seg3 == Base64DecodeChar(c3)
        out1 == Append(out, ((seg0 * 4) % 256) + (seg1 \div 16))
        out2 == Append(out1, ((seg1 * 16) % 256) + (seg2 \div 4))
        out3 == Append(out2, ((seg2 * 64) % 256) + seg3)
        next(o) == B64DecLoop(in, i + 4, in_len - 4, o)
    IN IF ~(in_len > 2) THEN stop(out)
       ELSE IF IsPad(c0) THEN stop(out)
       ELSE IF seg0 < 0 \/ seg1 < 0 THEN fail(out)
       ELSE IF in_len = 2 THEN stop(out1)
       ELSE IF IsPad(c2)
            THEN IF in_len # 4 THEN stop(out1)
                 ELSE IF ~IsPad(c3) THEN stop(out1)
                 ELSE next(out1)
       ELSE IF seg2 < 0 THEN fail(out1)
       ELSE IF in_len = 3 THEN stop(out2)
       ELSE IF IsPad(c3)
            THEN IF in_len # 4 THEN stop(out2) ELSE next(out2)
       ELSE IF seg3 < 0 THEN fail(out2)
       ELSE next(out3)

\* The trailing while loop of base64_decode: in_len after skipping the run
\* of '=' at the cursor.
RECURSIVE B64SkipPad(_, _, _)
B64SkipPad(in, i, in_len) ==
    IF IsPad(CharAt(in, i)) THEN B64SkipPad(in, i + 1, in_len - 1) ELSE in_len

\* base64_decode: the return code and the bytes left in out.
Base64Decode(in) ==
    LET r == B64DecLoop(in, 1, Len(in), <<>>)
    IN IF r.err THEN [rc |-> 3, out |-> r.out]
       ELSE [rc  |-> IF B64SkipPad(in, r.i, r.in_len) > 0 THEN 4 ELSE 0,
             out |-> r.out]

\* Longest text handed to base64_decode by a caller of its own.
MaxB64TextLen == 6

\* The characters of these texts: 'Q', '/' and '_' (position 63 of the
\* one and the other alphabet), '=' and '*', which is in no alphabet.
B64TextChars == {81, 47, 95, 61, 42}

B64Init ==
    /\ reg = RegIdle
    /\ i64 = I64Idle
    /\ enc = EncIdle
    /\ alg = AlgIdle
    /\ tp = TpIdle
    /\ td = TdIdle
    /\ pct = PctIdle
    /\ sl = SlIdle
    /\ \/ \E in \in SeqsUpTo(B64Bytes, MaxB64Len), u \in BOOLEAN :
            b64 = [pc |-> "start", in |-> in, useurl |-> u, text |-> <<>>,
                   out |-> <<>>, rc |-> 0]
       \/ \E text \in SeqsUpTo(B64TextChars, MaxB64TextLen) :
            b64 = [pc |-> "text", in |-> <<>>, useurl |-> FALSE,
                   text |-> text, out |-> <<>>, rc |-> 0]

B64Encode ==
    /\ b64.pc = "start"
    /\ UNCHANGED NotB64
    /\ b64' = [b64 EXCEPT !.pc = "encoded",
                          !.text = Base64Encode(b64.in, b64.useurl)]

B64Decode ==
    /\ b64.pc \in {"encoded", "text"}
    /\ UNCHANGED NotB64
    /\ LET r == Base64Decode(b64.text)
       IN b64' = [b64 EXCEPT !.pc = IF b64.pc = "encoded" THEN "done"
                                   ELSE "parsed",
                            !.out = r.out, !.rc = r.rc]

SpecB64 == B64Init /\ [][B64Encode \/ B64Decode]_vars

\* C7: base64_encode emits text whose length is a multiple of 4, padded
\* with '=', and base64_decode of that text returns 0 and yields the input
\* bytes, for every input length and both alphabets.
C7_Base64RoundTrip ==
    /\ b64.pc \in {"encoded", "done"} =>
         /\ Len(b64.text) % 4 = 0
         /\ Len(b64.text) = 4 * ((Len(b64.in) + 2) \div 3)
         /\ \A k \in 1..Len(b64.text) :
              IsPad(b64.text[k]) =>
                /\ k > Len(b64.text) - (2 - ((Len(b64.in) + 2) % 3))
    /\ b64.pc = "done" => b64.rc = 0 /\ b64.out = b64.in

\* A two-byte input whose text carries a '=' and a position-63 character has
\* been encoded with the url alphabet and decoded again.
C7_Witness ==
    /\ b64.pc = "done"
    /\ b64.useurl
    /\ b64.in = <<255, 255>>
    /\ b64.text = <<95, 95, 56, 61>>

\* The number of '=' at the end of the text.
RECURSIVE PadRun(_)
PadRun(text) ==
    IF text # <<>> /\ IsPad(text[Len(text)])
    THEN 1 + PadRun(SubSeq(text, 1, Len(text) - 1))
    ELSE 0

\* The characters before the run of '=' at the end of the text.
DataChars(text) == SubSeq(text, 1, Len(text) - PadRun(text))

\* The bytes that the characters of data stand for, six bits each.
RECURSIVE BytesOfData(_)
BytesOfData(data) ==
    LET v(k) == Base64DecodeChar(data[k])
    IN IF Len(data) < 2 THEN <<>>
       ELSE <<v(1) * 4 + (v(2) \div 16)>>
            \o (IF Len(data) < 3 THEN <<>>
                ELSE <<(v(2) % 16) * 16 + (v(3) \div 4)>>
                     \o (IF Len(data) < 4 THEN <<>>
                         ELSE <<(v(3) % 4) * 64 + v(4)>>
                              \o BytesOfData(SubSeq(data, 5, Len(data)))))

\* The text is characters of the alphabets followed by one or more '='.
IsDataThenPadding(text) ==
    /\ PadRun(text) >= 1
    /\ \A k \in 1..Len(text) - PadRun(text) :
         Base64DecodeChar(text[k]) >= 0

\* Some character other than '=' comes after a '='.
NonPadAfterPad(text) ==
    \E i \in 1..Len(text), j \in 1..Len(text) :
      i < j /\ IsPad(text[i]) /\ ~IsPad(text[j])

\* C24: base64_decode returns 0, with the bytes decoded from the data
\* characters, for every text of characters of either alphabet followed
\* by a run of one or more '=' of any length, and returns the code 4
\* (surplus) exactly when characters other than '=' remain after a run
\* of '='.
C24_PaddingRunEndsData ==
    b64.pc = "parsed" =>
      /\ IsDataThenPadding(b64.text) =>
            (b64.rc = 0 /\ b64.out = BytesOfData(DataChars(b64.text)))
      /\ b64.rc = 4 <=> NonPadAfterPad(b64.text)

\* What holds of the code: the text is accepted when its data characters
\* come in groups of four, or in a last group of two or three that the
\* '=' fill up to four, and are followed by '=' only.
PaddingAcceptedWhenAligned ==
    (b64.pc = "parsed" /\ IsDataThenPadding(b64.text)) =>
      (b64.rc = 0 <=>
         \/ Len(DataChars(b64.text)) % 4 = 0
         \/ /\ Len(DataChars(b64.text)) % 4 \in {2, 3}
            /\ (Len(DataChars(b64.text)) + PadRun(b64.text)) % 4 = 0
            /\ PadRun(b64.text) <= 2)

\* `QQ=` has been decoded: the byte is there, and the code is 4.
ShortPaddingIsSurplus ==
    /\ b64.pc = "parsed"
    /\ b64.text = <<81, 81, 61>>
    /\ b64.rc = 4
    /\ b64.out = <<65>>


(***************************************************************************)
(* uri_percent_encode / uri_percent_decode                                 *)
(***************************************************************************)

\* Longest byte string handed to uri_percent_encode.
MaxPctLen == 3

\* Bytes of the inputs: NUL, 'A' (unreserved), '%', ' ' (never safe) and
\* '!' (safe only when the caller's safe set names it).
PctBytes == {0, 65, 37, 32, 33}

\* The safe sets tried: none, "!" and "%".
PctSafeSets == {<<>>, <<33>>, <<37>>}

\* Bytes that memory may hold right after a view that has no terminator.
PctAfterBytes == {0, 65}

\* text_real_len: the length of the view, ignoring one terminating null.
TextRealLenBad(data) == Len(data)

TextRealLen(data) ==
    IF Len(data) = 0 THEN 0
    ELSE IF data[Len(data)] = 0 THEN Len(data) - 1 ELSE Len(data)

\* The string `unreserved`: A-Z a-z 0-9 _ . - ~
Unreserved ==
    (65..90) \cup (97..122) \cup (48..57) \cup {95, 46, 45, 126}

Range(s) == {s[k] : k \in 1..Len(s)}

\* strspn(mem + i, accept): the length of the run of bytes of `accept` at
\* mem[i].  mem holds a NUL at or after i, where every run ends.
RECURSIVE Strspn(_, _, _)
Strspn(mem, i, accept) ==
    IF i > Len(mem) THEN 0
    ELSE IF mem[i] # 0 /\ mem[i] \in accept
         THEN 1 + Strspn(mem, i + 1, accept)
         ELSE 0

\* strchr(mem + i, chr): the index of the first chr at or after mem[i] and
\* before the next NUL, or 0 for NULL.
RECURSIVE Strchr(_, _, _)
Strchr(mem, i, chr) ==
    IF i > Len(mem) THEN 0
    ELSE IF mem[i] = chr THEN i
    ELSE IF mem[i] = 0 THEN 0
    ELSE Strchr(mem, i + 1, chr)

\* mem[i..j], cut at the end of the modelled memory.
Slice(mem, i, j) ==
    IF j < i THEN <<>>
    ELSE SubSeq(mem, i, IF j > Len(mem) THEN Len(mem) ELSE j)

\* One upper-case hexadecimal digit of printf's %X.
HexUpper(n) == IF n < 10 THEN 48 + n ELSE 55 + n

\* The while loop of uri_percent_encode from cursor i; end is one past the
\* last byte of the text.
RECURSIVE PctEncLoop(_, _, _, _, _)
PctEncLoop(mem, i, end, allsafe, out) ==
    IF ~(i < end) THEN out
    ELSE
      LET partlen == Strspn(mem, i, allsafe)
          out1    == out \o Slice(mem, i, i + partlen - 1)
          i1      == i + partlen
      IN IF i1 >= end THEN out1
         ELSE PctEncLoop(mem, i1 + 1, end, allsafe,
                  out1 \o <<37, HexUpper(mem[i1] \div 16),
                            HexUpper(mem[i1] % 16)>>)

\* uri_percent_encode of the view `data` of memory data \o beyond, with
\* the safe characters of the string `safe`: the text appended to out (the
\* return code is always 0).
UriPercentEncode(data, beyond, safe) ==
    The({PctEncLoop(mem, 1, TextRealLen(data) + 1, allsafe, <<>>) :
         mem \in {data \o beyond}, allsafe \in {Unreserved \cup Range(safe)}})

\* isspace() in the C locale.
IsSpace(c) == c \in (9..13) \cup {32}

\* The value of a hexadecimal digit, or -1.
HexValue(c) ==
    IF c \in 48..57 THEN c - 48
    ELSE IF c \in 65..70 THEN c - 55
    ELSE IF c \in 97..102 THEN c - 87
    ELSE -1

\* The run of hexadecimal digits of buf from index i: its value modulo m
\* and the index after it.
RECURSIVE HexRun(_, _, _, _)
HexRun(buf, i, acc, m) ==
    IF i <= Len(buf) /\ HexValue(buf[i]) >= 0
    THEN HexRun(buf, i + 1, (acc * 16 + HexValue(buf[i])) % m, m)
    ELSE [val |-> acc, next |-> i]

RECURSIVE SkipSpace(_, _)
SkipSpace(buf, i) ==
    IF i <= Len(buf) /\ IsSpace(buf[i]) THEN SkipSpace(buf, i + 1) ELSE i

\* strtoul(buf, &numend, 16) stored into an unsigned integer of modulus m:
\* leading white space, an optional sign and an optional 0x are accepted;
\* used = numend - buf (0 when no digits were found).
StrtoulHex(buf, m) ==
    LET s    == SkipSpace(buf, 1)
        neg  == s <= Len(buf) /\ buf[s] = 45
        d    == IF s <= Len(buf) /\ buf[s] \in {43, 45} THEN s + 1 ELSE s
        pfx  == /\ d + 1 <= Len(buf)
                /\ buf[d] = 48
                /\ buf[d + 1] \in {120, 88}
        run  == HexRun(buf, IF pfx THEN d + 2 ELSE d, 0, m)
        run0 == HexRun(buf, d, 0, m)
        r    == IF pfx /\ run.next = d + 2 THEN run0 ELSE run
        none == r.next = (IF pfx /\ r = run THEN d + 2 ELSE d)
    IN [val  |-> IF neg THEN (m - r.val) % m ELSE r.val,
        used |-> IF none THEN 0 ELSE r.next - 1]

\* take_hex_1byte at cursor i: the return code, the byte and the cursor.
TakeHex1Byte(mem, i, end) ==
    IF i + 2 > end THEN [rc |-> 1, val |-> 0, i |-> i]
    ELSE LET n == StrtoulHex(Slice(mem, i, i + 1), 256)
         IN [rc |-> IF n.used < 2 THEN 2 ELSE 0, val |-> n.val, i |-> i + 2]

\* The while loop of uri_percent_decode from cursor i.
RECURSIVE PctDecLoop(_, _, _, _)
PctDecLoop(mem, i, end, out) ==
    IF ~(i < end) THEN [rc |-> 0, out |-> out]
    ELSE
      LET found   == Strchr(mem, i, 37)
          partend == IF found = 0 THEN end ELSE found
          out1    == out \o Slice(mem, i, partend - 1)
          i1      == partend + 1
          h       == TakeHex1Byte(mem, i1, end)
      IN IF i1 > end THEN [rc |-> 0, out |-> out1]
         ELSE IF h.rc # 0 THEN [rc |-> 2, out |-> out1]
         ELSE PctDecLoop(mem, h.i, end, Append(out1, h.val))

\* uri_percent_decode of a string_t viewed with its terminating NUL.
UriPercentDecode(text) ==
    PctDecLoop(text \o <<0>>, 1, TextRealLen(text \o <<0>>) + 1, <<>>)

\* Longest text handed to uri_percent_decode by a caller of its own.
MaxPctTextLen == 4

\* The bytes of these texts: '%', '+', '-', ' ', '1', 'G' and 'f'.
PctTextBytes == {37, 43, 45, 32, 49, 71, 102}

\* The caller holds the bytes b either with a terminating NUL appended
\* (term) or as a bare slice, after which memory holds the byte `after`.
PctInit ==
    /\ reg = RegIdle
    /\ i64 = I64Idle
    /\ enc = EncIdle
    /\ alg = AlgIdle
    /\ tp = TpIdle
    /\ td = TdIdle
    /\ b64 = B64Idle
    /\ sl = SlIdle
    /\ \/ \E b \in SeqsUpTo(PctBytes, MaxPctLen), t \in BOOLEAN,
             a \in PctAfterBytes, s \in PctSafeSets :
            /\ t => a = 0
            /\ pct = [pc |-> "start", b |-> b, term |-> t, after |-> a,
                      safe |-> s, text |-> <<>>, out |-> <<>>, rc |-> 0]
       \/ \E text \in SeqsUpTo(PctTextBytes, MaxPctTextLen) :
            pct = [pc |-> "text", b |-> <<>>, term |-> TRUE, after |-> 0,
                   safe |-> <<>>, text |-> text, out |-> <<>>, rc |-> 0]

PctEncode ==
    /\ pct.pc = "start"
    /\ pct' = [pct EXCEPT
                 !.pc = "encoded",
                 !.text = IF pct.term
                          THEN UriPercentEncode(pct.b \o <<0>>, <<>>, pct.safe)
                          ELSE UriPercentEncode(pct.b, <<pct.after, 0>>,
                                                pct.safe)]
    /\ UNCHANGED NotPct

PctDecode ==
    /\ pct.pc \in {"encoded", "text"}
    /\ LET r == UriPercentDecode(pct.text)
       IN pct' = [pct EXCEPT !.pc = IF pct.pc = "encoded" THEN "done"
                                   ELSE "parsed",
                            !.out = r.out, !.rc = r.rc]
    /\ UNCHANGED NotPct

SpecPct == PctInit /\ [][PctEncode \/ PctDecode]_vars

\* C6 (as stated): for all byte slices b, also with a zero byte last, and
\* all safe sets, decoding the percent-encoding of b succeeds and yields b.
C6_PercentRoundTripAnySlice ==
    pct.pc = "done" => pct.rc = 0 /\ pct.out = pct.b

\* C6 (amended): for all bytes b handed to the encoder with a terminating
\* NUL after them, and all safe sets without '%', decoding the
\* percent-encoding succeeds and yields b, zero bytes of b included.
C6_PercentRoundTrip ==
    (pct.pc = "done" /\ pct.term /\ 37 \notin Range(pct.safe))
        => pct.rc = 0 /\ pct.out = pct.b

\* A terminated input with zero bytes first and last has made the round trip.
C6_Witness ==
    /\ pct.pc = "done"
    /\ pct.term
    /\ pct.b = <<0, 32, 0>>
    /\ pct.safe = <<33>>
    /\ pct.text = <<37, 48, 48, 37, 50, 48, 37, 48, 48>>

\* Each '%' of the text is followed by two hexadecimal digits.
EachPercentHasTwoHexDigits(text) ==
    \A i \in 1..Len(text) :
      text[i] = 37 =>
        /\ i + 2 <= Len(text)
        /\ HexValue(text[i + 1]) >= 0
        /\ HexValue(text[i + 2]) >= 0

\* C21: uri_percent_decode returns 0 for a text in which each '%' is
\* followed by two hexadecimal digits, and a non-zero code for a text in
\* which some '%' is followed by fewer than two characters or by two
\* characters that are not both hexadecimal digits.
C21_PercentDecodeRejectsNonHex ==
    pct.pc = "parsed" =>
      (pct.rc = 0 <=> EachPercentHasTwoHexDigits(pct.text))

\* What holds of the code: a well-formed text is accepted, and a text
\* that is accepted and not well-formed has a '%' whose two characters
\* are read by strtoul as white space or a sign and a digit.
PercentDecodeAcceptsSignAndSpace ==
    pct.pc = "parsed" =>
      /\ EachPercentHasTwoHexDigits(pct.text) => pct.rc = 0
      /\ (pct.rc = 0 /\ ~EachPercentHasTwoHexDigits(pct.text)) =>
            \E i \in 1..Len(pct.text) - 2 :
              /\ pct.text[i] = 37
              /\ pct.text[i + 1] \in {43, 45, 32}
              /\ HexValue(pct.text[i + 2]) >= 0

\* `%+1` has been decoded to the byte 1.
PercentPlusOneDecoded ==
    /\ pct.pc = "parsed"
    /\ pct.text = <<37, 43, 49>>
    /\ pct.rc = 0
    /\ pct.out = <<1>>


(***************************************************************************)
(* slash_escape / slash_unescape                                           *)
(***************************************************************************)

\* Longest text, in code points, handed to slash_escape.
MaxSlashLen == 2

\* Code points of the inputs: 'A', backslash, both quotes, LF, U+0001,
\* 'n', 'u', U+00E9, U+20AC, U+10000 and U+10FFFF.
SlashCodePoints ==
    {65, 92, 34, 39, 10, 1, 110, 117, 233, 8364, 65536, 1114111}

\* x | y on values of `bits` bits.
RECURSIVE BitOr16(_, _, _)
BitOr16(x, y, bits) ==
    IF bits = 0 THEN 0
    ELSE (IF x % 2 = 1 \/ y % 2 = 1 THEN 1 ELSE 0)
         + 2 * BitOr16(x \div 2, y \div 2, bits - 1)

\* The UTF-8 bytes of a code point given as the 16-bit halves hi:lo of a
\* 32-bit value (m_str1ng_utf8_encode); string_push_u appends them as a C
\* string, so the code point 0 appends nothing.
Utf8OfHalves(hi, lo) ==
    IF hi = 0 /\ lo = 0 THEN <<>>
    ELSE IF hi = 0 /\ lo <= 127 THEN <<lo>>
    ELSE IF hi = 0 /\ lo <= 2047 THEN <<192 + (lo \div 64), 128 + (lo % 64)>>
    ELSE IF hi = 0
         THEN <<224 + (lo \div 4096), 128 + ((lo \div 64) % 64),
                128 + (lo % 64)>>
    ELSE <<BitOr16(240, (hi \div 4) % 256, 8),
           128 + ((hi % 4) * 16) + (lo \div 4096),
           128 + ((lo \div 64) % 64),
           128 + (lo % 64)>>

\* string_push_u of a code point below 2^31.
PushU(cp) == Utf8OfHalves(cp \div 65536, cp % 65536)

\* The UTF-8 bytes of a sequence of code points.
RECURSIVE Utf8(_)
Utf8(t) == IF t = <<>> THEN <<>> ELSE PushU(Head(t)) \o Utf8(Tail(t))

\* printf's %04X of a 16-bit value.
Hex4(v) ==
    <<HexUpper(v \div 4096), HexUpper((v \div 256) % 16),
      HexUpper((v \div 16) % 16), HexUpper(v % 16)>>

\* isprint() in the C locale.
IsPrint(c) == c \in 32..126

\* The text slash_escape appends for one code point of the input.
SlashEscapeChar(chr, quote) ==
    IF chr = quote THEN <<92, quote>>
    ELSE IF chr = 8 THEN <<92, 98>>
    ELSE IF chr = 12 THEN <<92, 102>>
    ELSE IF chr = 10 THEN <<92, 110>>
    ELSE IF chr = 13 THEN <<92, 114>>
    ELSE IF chr = 9 THEN <<92, 116>>
    ELSE IF chr <= 255 /\ IsPrint(chr) THEN PushU(chr)
    ELSE IF chr <= 55295 \/ (chr >= 57344 /\ chr <= 65535)
         THEN <<92, 117>> \o Hex4(chr)
    ELSE LET uprime == chr - 65536
             high   == 55296 + (uprime \div 1024)
             low    == 56320 + (uprime % 1024)
         IN <<92, 117>> \o Hex4(high) \o <<92, 117>> \o Hex4(low)

\* slash_escape of the text t (the code points the unicode iterator yields
\* for the NUL-terminated UTF-8 input): the text appended to out.
RECURSIVE SlashEscape(_, _)
SlashEscape(t, quote) ==
    IF t = <<>> THEN <<>>
    ELSE SlashEscapeChar(Head(t), quote) \o SlashEscape(Tail(t), quote)

\* take_hex_2byte at cursor i: the return code, the value and the cursor.
TakeHex2Byte(mem, i, end) ==
    IF i + 4 > end THEN [rc |-> 1, val |-> 0, i |-> i]
    ELSE LET n == StrtoulHex(Slice(mem, i, i + 3), 65536)
         IN [rc |-> IF n.used < 4 THEN 2 ELSE 0, val |-> n.val, i |-> i + 4]

\* The surrogate pair removal of slash_unescape, in 32-bit unsigned
\* arithmetic on the halves hi:lo:
\*   unival = (val - 0xD800) << 10; unival |= val2 - 0xDC00;
\*   unival += 0x10000
\* The UTF-8 bytes string_push_u then appends.
SurrogateBytes(val, val2) ==
    LET v   == val - 55296
        hi1 == v \div 64
        lo1 == (v % 64) * 1024
        hi2 == IF val2 >= 56320 THEN 0 ELSE 65535
        lo2 == IF val2 >= 56320 THEN val2 - 56320
               ELSE 65536 - (56320 - val2)
        hi  == (BitOr16(hi1, hi2, 16) + 1) % 65536
        lo  == BitOr16(lo1, lo2, 16)
    IN Utf8OfHalves(hi, lo)

\* The while loop of slash_unescape from cursor i.
RECURSIVE SlashUnescLoop(_, _, _, _)
SlashUnescLoop(mem, i, end, out) ==
    IF ~(i < end) THEN [rc |-> 0, out |-> out]
    ELSE
      LET found   == Strchr(mem, i, 92)
          partend == IF found = 0 THEN end ELSE found
          out1    == out \o Slice(mem, i, partend - 1)
          c       == partend + 1
          chr     == mem[c]
          ret(rc) == [rc |-> rc, out |-> out1]
          one(b)  == SlashUnescLoop(mem, c + 1, end, Append(out1, b))
          h1      == TakeHex2Byte(mem, c + 1, end)
          h2      == TakeHex2Byte(mem, h1.i + 2, end)
      IN IF c > end THEN ret(0)
         ELSE IF c = end THEN ret(3)
         ELSE IF chr = 98 THEN one(8)
         ELSE IF chr = 102 THEN one(12)
         ELSE IF chr = 110 THEN one(10)
         ELSE IF chr = 114 THEN one(13)
         ELSE IF chr = 116 THEN one(9)
         ELSE IF chr = 117
              THEN IF h1.rc # 0 THEN ret(5)
                   ELSE IF h1.val >= 55296 /\ h1.val <= 57343
                        THEN IF h1.i + 2 >= end THEN ret(5)
                             ELSE IF mem[h1.i] # 92 THEN ret(5)
                             ELSE IF mem[h1.i + 1] # 117 THEN ret(5)
                             ELSE IF h2.rc # 0 THEN ret(5)
                             ELSE SlashUnescLoop(mem, h2.i, end,
                                    out1 \o SurrogateBytes(h1.val, h2.val))
                        ELSE SlashUnescLoop(mem, h1.i, end,
                                            out1 \o PushU(h1.val))
         ELSE one(chr)

\* slash_unescape of a string_t viewed with its terminating NUL.
SlashUnescape(text) ==
    IF TextRealLen(text \o <<0>>) = 0 THEN [rc |-> 0, out |-> <<>>]
    ELSE SlashUnescLoop(text \o <<0>>, 1, TextRealLen(text \o <<0>>) + 1,
                        <<>>)

\* Pieces of the texts handed to slash_unescape by a caller of its own:
\* nothing, A, a lone backslash, \n, \\, \u, \u00, \u0041, \uD83D (a high
\* surrogate), \uDE00 and \uDC00 (low surrogates), and \u followed by
\* G041, 004G, " 041", +041 and 0x41.
UnescapePieces ==
    {<<>>, <<65>>, <<92>>, <<92, 110>>, <<92, 92>>, <<92, 117>>,
     <<92, 117, 48, 48>>, <<92, 117, 48, 48, 52, 49>>,
     <<92, 117, 68, 56, 51, 68>>, <<92, 117, 68, 69, 48, 48>>,
     <<92, 117, 68, 67, 48, 48>>, <<92, 117, 71, 48, 52, 49>>,
     <<92, 117, 48, 48, 52, 71>>, <<92, 117, 32, 48, 52, 49>>,
     <<92, 117, 43, 48, 52, 49>>, <<92, 117, 48, 120, 52, 49>>}

\* The texts: two pieces, and A or nothing after them.
UnescapeTexts ==
    {a \o b \o c : a \in UnescapePieces, b \in UnescapePieces,
                   c \in {<<>>, <<65>>}}

SlInit ==
    /\ reg = RegIdle
    /\ i64 = I64Idle
    /\ enc = EncIdle
    /\ alg = AlgIdle
    /\ tp = TpIdle
    /\ td = TdIdle
    /\ b64 = B64Idle
    /\ pct = PctIdle
    /\ \/ \E t \in SeqsUpTo(SlashCodePoints, MaxSlashLen), q \in {34, 39} :
            sl = [pc |-> "start", t |-> t, quote |-> q, text |-> <<>>,
                  out |-> <<>>, rc |-> 0]
       \/ \E text \in UnescapeTexts :
            sl = [pc |-> "text", t |-> <<>>, quote |-> 34, text |-> text,
                  out |-> <<>>, rc |-> 0]

SlEscape ==
    /\ sl.pc = "start"
    /\ sl' = [sl EXCEPT !.pc = "escaped",
                        !.text = SlashEscape(sl.t, sl.quote)]
    /\ UNCHANGED NotSl

SlUnescape ==
    /\ sl.pc \in {"escaped", "text"}
    /\ LET r == SlashUnescape(sl.text)
       IN sl' = [sl EXCEPT !.pc = IF sl.pc = "escaped" THEN "done"
                                 ELSE "parsed",
                          !.out = r.out, !.rc = r.rc]
    /\ UNCHANGED NotSl

SpecSlash == SlInit /\ [][SlEscape \/ SlUnescape]_vars

\* C5: for every UTF-8 text t and each quote, slash_unescape of the output
\* of slash_escape(t, quote) succeeds and yields exactly the bytes of t.
C5_SlashRoundTrip ==
    sl.pc = "done" => sl.rc = 0 /\ sl.out = Utf8(sl.t)

\* The round trip does hold for the texts without a backslash.
C5_SlashRoundTripNoBackslash ==
    (sl.pc = "done" /\ 92 \notin Range(sl.t))
        => sl.rc = 0 /\ sl.out = Utf8(sl.t)

\* text[i], or 0 past the end of the text.
ByteAt(text, i) == IF i \in 1..Len(text) THEN text[i] ELSE 0

\* The four characters of the text from i on are hexadecimal digits.
FourHexDigits(text, i) ==
    \A k \in i..i + 3 : k <= Len(text) /\ HexValue(text[k]) >= 0

\* The value of four hexadecimal digits.
FourHexValue(text, i) ==
    ((HexValue(text[i]) * 16 + HexValue(text[i + 1])) * 16
       + HexValue(text[i + 2])) * 16 + HexValue(text[i + 3])

\* The text has, from i on, a dangling backslash at its end, a \u that
\* is not followed by four hexadecimal digits, or a \uXXXX of the
\* surrogate range that is not a high surrogate immediately followed by
\* \u and a low surrogate.
RECURSIVE MalformedEscape(_, _)
MalformedEscape(text, i) ==
    IF i > Len(text) THEN FALSE
    ELSE IF text[i] # 92 THEN MalformedEscape(text, i + 1)
    ELSE IF i = Len(text) THEN TRUE
    ELSE IF text[i + 1] # 117 THEN MalformedEscape(text, i + 2)
    ELSE IF ~FourHexDigits(text, i + 2) THEN TRUE
    ELSE IF FourHexValue(text, i + 2) \notin 55296..57343
    THEN MalformedEscape(text, i + 6)
    ELSE IF FourHexValue(text, i + 2) >= 56320 THEN TRUE
    ELSE IF ~(/\ ByteAt(text, i + 6) = 92
              /\ ByteAt(text, i + 7) = 117
              /\ FourHexDigits(text, i + 8)
              /\ FourHexValue(text, i + 8) \in 56320..57343) THEN TRUE
    ELSE MalformedEscape(text, i + 12)

\* C22: slash_unescape returns a non-zero code for every text with a
\* dangling backslash at the end, a \u followed by fewer than four
\* hexadecimal digits or by other characters, or a \uXXXX of the
\* surrogate range that is not a high surrogate immediately followed by
\* \u and a low surrogate.
C22_UnescapeRejectsMalformed ==
    (sl.pc = "parsed" /\ MalformedEscape(sl.text, 1)) => sl.rc # 0

\* The malformed texts that the code does reject: those whose \u groups
\* are of four hexadecimal digits and whose surrogates are well paired
\* are not concerned; a malformed text is accepted only with a sign,
\* white space or 0x in the four characters, or with a \uXXXX of the
\* surrogate range followed by another \u of four characters.
UnescapeAcceptsOnlyThese ==
    (sl.pc = "parsed" /\ MalformedEscape(sl.text, 1) /\ sl.rc = 0) =>
      \E i \in 1..Len(sl.text) - 5 :
        /\ sl.text[i] = 92
        /\ sl.text[i + 1] = 117
        /\ \/ sl.text[i + 2] \in {32, 43}
           \/ sl.text[i + 3] = 120
           \/ /\ FourHexDigits(sl.text, i + 2)
              /\ FourHexValue(sl.text, i + 2) \in 55296..57343
              /\ ByteAt(sl.text, i + 6) = 92
              /\ ByteAt(sl.text, i + 7) = 117

\* A high surrogate followed by \u0041 has been accepted.
HighSurrogateThenLetterAccepted ==
    /\ sl.pc = "parsed"
    /\ sl.text = <<92, 117, 68, 56, 51, 68, 92, 117, 48, 48, 52, 49>>
    /\ sl.rc = 0


(***************************************************************************)
(* 64-bit integers.  TLC's integers have 32 bits, so a time_t or uint64_t  *)
(* magnitude is a sequence of base-10000 limbs, least significant first    *)
(* and without leading zero limbs; a signed value is [neg, mag].  The      *)
(* values met below stay under 2^63, where the arithmetic of the source    *)
(* does not wrap.                                                          *)
(***************************************************************************)

RECURSIVE WNorm(_)
WNorm(a) ==
    IF a = <<>> THEN <<>>
    ELSE IF a[Len(a)] = 0 THEN WNorm(SubSeq(a, 1, Len(a) - 1))
    ELSE a

RECURSIVE WOfInt(_)
WOfInt(n) == IF n = 0 THEN <<>> ELSE <<n % 10000>> \o WOfInt(n \div 10000)

\* The magnitude as a TLC integer (for magnitudes below 2^31).
RECURSIVE WToInt(_)
WToInt(a) == IF a = <<>> THEN 0 ELSE Head(a) + 10000 * WToInt(Tail(a))

WRest(a) == IF a = <<>> THEN <<>> ELSE Tail(a)
WLow(a) == IF a = <<>> THEN 0 ELSE Head(a)

RECURSIVE WAddC(_, _, _)
WAddC(a, b, c) ==
    IF a = <<>> /\ b = <<>> THEN WOfInt(c)
    ELSE LET x == WLow(a) + WLow(b) + c
         IN <<x % 10000>> \o WAddC(WRest(a), WRest(b), x \div 10000)

WAdd(a, b) == WAddC(a, b, 0)

\* a - b - c for a >= b + c.
RECURSIVE WSubB(_, _, _)
WSubB(a, b, c) ==
    IF a = <<>> THEN <<>>
    ELSE LET x == WLow(a) - WLow(b) - c
         IN <<x % 10000>> \o WSubB(WRest(a), WRest(b), IF x < 0 THEN 1 ELSE 0)

WSub(a, b) == WNorm(WSubB(a, b, 0))

\* a < b for magnitudes of equal length or without leading zero limbs.
RECURSIVE WLess(_, _)
WLess(a, b) ==
    IF Len(a) # Len(b) THEN Len(a) < Len(b)
    ELSE IF a = <<>> THEN FALSE
    ELSE IF a[Len(a)] # b[Len(b)] THEN a[Len(a)] < b[Len(b)]
    ELSE WLess(SubSeq(a, 1, Len(a) - 1), SubSeq(b, 1, Len(b) - 1))

\* a * n + c for 0 <= n <= 200000.
RECURSIVE WMulSmall(_, _, _)
WMulSmall(a, n, c) ==
    IF a = <<>> THEN WOfInt(c)
    ELSE LET x == Head(a) * n + c
         IN WNorm(<<x % 10000>> \o WMulSmall(Tail(a), n, x \div 10000))

\* Quotient and remainder of a by d, 0 < d <= 200000.
RECURSIVE WDivRec(_, _, _)
WDivRec(a, d, k) ==
    IF k = 0 THEN [q |-> <<>>, r |-> 0]
    ELSE LET hi == WDivRec(a, d, k - 1)
             x  == hi.r * 10000 + a[Len(a) - k + 1]
         IN [q |-> <<x \div d>> \o hi.q, r |-> x % d]

WDivMod(a, d) ==
    LET res == WDivRec(a, d, Len(a))
    IN [q |-> WNorm(res.q), r |-> res.r]

SOfInt(n) == [neg |-> n < 0, mag |-> WOfInt(IF n < 0 THEN -n ELSE n)]

SNeg(x) == [neg |-> (~x.neg) /\ x.mag # <<>>, mag |-> x.mag]

SAdd(x, y) ==
    IF x.neg = y.neg THEN [neg |-> x.neg, mag |-> WAdd(x.mag, y.mag)]
    ELSE IF WLess(x.mag, y.mag)
         THEN [neg |-> y.neg, mag |-> WSub(y.mag, x.mag)]
    ELSE LET m == WSub(x.mag, y.mag)
         IN [neg |-> x.neg /\ m # <<>>, mag |-> m]

SMulSmall(x, n) ==
    LET m == WMulSmall(x.mag, n, 0) IN [neg |-> x.neg /\ m # <<>>, mag |-> m]

DigitChars == <<"0", "1", "2", "3", "4", "5", "6", "7", "8", "9">>

IsDigit(c) == c \in Range(DigitChars)

DigitValue(c) == CHOOSE d \in 0..9 : DigitChars[d + 1] = c

\* printf's %0*u of n in `width` digits.
RECURSIVE Padded(_, _)
Padded(n, width) ==
    IF width = 0 THEN <<>>
    ELSE Padded(n \div 10, width - 1) \o <<DigitChars[(n % 10) + 1]>>

\* printf's %u of a TLC integer n >= 0.
RECURSIVE DecOfInt(_)
DecOfInt(n) ==
    IF n < 10 THEN <<DigitChars[n + 1]>>
    ELSE DecOfInt(n \div 10) \o <<DigitChars[(n % 10) + 1]>>

\* printf's %PRIu64 of a magnitude.
RECURSIVE WToDec(_)
WToDec(a) ==
    IF Len(a) <= 1 THEN DecOfInt(WLow(a))
    ELSE WToDec(Tail(a)) \o Padded(Head(a), 4)

\* text[i], or "" for the terminating NUL past the end of the text.
ChAt(text, i) == IF i \in 1..Len(text) THEN text[i] ELSE ""

\* strchr on text: the index of the first ch at or after i, or 0 for NULL.
RECURSIVE StrchrS(_, _, _)
StrchrS(text, i, ch) ==
    IF i > Len(text) THEN 0
    ELSE IF text[i] = ch THEN i
    ELSE StrchrS(text, i + 1, ch)

IsSpaceS(c) == c \in {" ", "\t", "\n", "\f", "\r"}

RECURSIVE SkipSpaceS(_, _)
SkipSpaceS(text, i) ==
    IF IsSpaceS(ChAt(text, i)) THEN SkipSpaceS(text, i + 1) ELSE i

RECURSIVE DecRun(_, _, _)
DecRun(text, i, acc) ==
    IF IsDigit(ChAt(text, i))
    THEN DecRun(text, i + 1, WMulSmall(acc, 10, DigitValue(text[i])))
    ELSE [mag |-> acc, next |-> i]

\* strtoul / strtoull(text + i, &numend, 10): leading white space and a
\* sign are accepted; next is numend, which is i when no digit was found.
\* A minus sign negates the value (modulo 2^64 in the source).
StrtoulDec(text, i) ==
    LET s   == SkipSpaceS(text, i)
        neg == ChAt(text, s) = "-"
        d   == IF ChAt(text, s) \in {"+", "-"} THEN s + 1 ELSE s
        run == DecRun(text, d, <<>>)
    IN IF run.next = d THEN [neg |-> FALSE, mag |-> <<>>, next |-> i]
       ELSE [neg |-> neg /\ run.mag # <<>>, mag |-> run.mag, next |-> run.next]

(***************************************************************************)
(* subsec_encode / subsec_decode, timeperiod_encode / timeperiod_decode    *)
(***************************************************************************)

\* The while loop of subsec_encode: trailing zeros trimmed.
RECURSIVE TrimZeros(_, _)
TrimZeros(subsec, digits) ==
    IF subsec % 10 = 0 THEN TrimZeros(subsec \div 10, digits - 1)
    ELSE [subsec |-> subsec, digits |-> digits]

SubsecEncodeBad(subsec) ==
    IF subsec = 0 THEN <<>>
    ELSE LET t == TrimZeros(subsec, 9)
         IN <<".">> \o DecOfInt(t.subsec)

\* subsec_encode: the text appended to out.
SubsecEncode(subsec) ==
    IF subsec = 0 THEN <<>>
    ELSE LET t == TrimZeros(subsec, 9)
         IN <<".">> \o Padded(t.subsec, t.digits)

RECURSIVE TimesTen(_, _)
TimesTen(n, k) == IF k <= 0 THEN n ELSE TimesTen(n * 10, k - 1)

\* subsec_decode at cursor i with the limit end: the return code, the
\* subseconds (unchanged at 0 when nothing is parsed) and the cursor.
SubsecDecode(text, i, end) ==
    LET n      == StrtoulDec(text, i + 1)
        digits == n.next - (i + 1)
        val    == IF n.neg THEN -WToInt(n.mag) ELSE WToInt(n.mag)
    IN IF i = end THEN [rc |-> 0, subsec |-> 0, i |-> i]
       ELSE IF ChAt(text, i) # "." THEN [rc |-> 2, subsec |-> 0, i |-> i]
       ELSE IF ~(i + 1 < end) THEN [rc |-> 0, subsec |-> 0, i |-> i + 1]
       ELSE IF n.next = i + 1 THEN [rc |-> 2, subsec |-> 0, i |-> i + 1]
       ELSE IF digits > 9 THEN [rc |-> 4, subsec |-> 0, i |-> i + 1]
       ELSE [rc |-> 0, subsec |-> TimesTen(val, 9 - digits), i |-> n.next]

\* timeperiod_encode of the timespec [sec, nsec]: the text appended to out
\* (the return code is 0).
TimeperiodEncode(in) ==
    IF in.sec.mag = <<>> /\ in.nsec = 0 THEN <<"P", "T", "0", "S">>
    ELSE
      LET sign == IF in.sec.neg THEN <<"-">> ELSE <<>>
          hasD == ~WLess(in.sec.mag, WOfInt(86400))
          dm   == WDivMod(in.sec.mag, 86400)
          day  == IF hasD THEN WToDec(dm.q) \o <<"D">> ELSE <<>>
          s1   == IF hasD THEN dm.r ELSE WToInt(in.sec.mag)
          hour == IF s1 >= 3600 THEN DecOfInt(s1 \div 3600) \o <<"H">>
                  ELSE <<>>
          s2   == IF s1 >= 3600 THEN s1 % 3600 ELSE s1
          min  == IF s2 >= 60 THEN DecOfInt(s2 \div 60) \o <<"M">> ELSE <<>>
          s3   == IF s2 >= 60 THEN s2 % 60 ELSE s2
          sec  == IF s3 # 0 \/ in.nsec # 0
                  THEN DecOfInt(s3) \o SubsecEncode(in.nsec) \o <<"S">>
                  ELSE <<>>
      IN sign \o <<"P">> \o day \o <<"T">> \o hour \o min \o sec

\* One `<integer><unit>` part of timeperiod_decode at cursor i, looked for
\* with strchr: found, the return code, seconds added, the cursor after it.
TdPart(text, i, unit, scale) ==
    LET partend == StrchrS(text, i, unit)
        n       == StrtoulDec(text, i)
    IN IF partend = 0
       THEN [rc |-> 0, add |-> SOfInt(0), i |-> i, partend |-> 0, numend |-> i]
       ELSE IF n.next = i
            THEN [rc |-> 2, add |-> SOfInt(0), i |-> i, partend |-> partend,
                  numend |-> i]
       ELSE [rc |-> 0,
             add |-> SMulSmall([neg |-> n.neg, mag |-> n.mag], scale),
             i |-> partend + 1, partend |-> partend, numend |-> n.next]

\* timeperiod_decode of the text: the return code and, when it is 0, the
\* timespec stored in *out.
TimeperiodDecode(text) ==
    LET end      == Len(text) + 1
        sign_neg == ChAt(text, 1) = "-"
        i1       == IF ChAt(text, 1) \in {"-", "+"} THEN 2 ELSE 1
        d        == TdPart(text, i1 + 1, "D", 86400)
        h        == TdPart(text, d.i + 1, "H", 3600)
        m        == TdPart(text, h.i, "M", 60)
        s        == TdPart(text, m.i, "S", 1)
        ss       == SubsecDecode(text, s.numend, s.partend)
        fullsec  == SAdd(SAdd(d.add, h.add), SAdd(m.add, s.add))
        err(rc)  == [rc |-> rc, set |-> FALSE, sec |-> SOfInt(0), nsec |-> 0]
    IN IF ChAt(text, i1) # "P" THEN err(2)
       ELSE IF d.rc # 0 THEN err(2)
       ELSE IF ChAt(text, d.i) # "T" THEN err(2)
       ELSE IF h.rc # 0 THEN err(2)
       ELSE IF m.rc # 0 THEN err(2)
       ELSE IF s.rc # 0 THEN err(2)
       ELSE IF s.partend # 0 /\ ss.rc # 0 THEN err(2)
       ELSE IF s.i < end THEN err(3)
       ELSE [rc |-> 0, set |-> TRUE,
             sec |-> IF sign_neg THEN SNeg(fullsec) ELSE fullsec,
             nsec |-> IF s.partend # 0 THEN ss.subsec ELSE 0]

\* Seconds of the durations tried; 4611686018427387903 = 2^62 - 1.
TdSeconds ==
    LET pos == {SOfInt(n) : n \in {0, 1, 59, 60, 3599, 3600, 3661, 86399,
                                   86400, 90061, 2147483647}}
               \cup {[neg |-> FALSE, mag |-> <<7903, 2738, 184, 1686, 461>>]}
    IN pos \cup {SNeg(x) : x \in pos}

\* Nanoseconds of the timespecs tried.
Nanoseconds == {0, 1, 1000, 500000000, 999999999}

\* The caller's *out before timeperiod_decode is called.
TdOutBefore == [sec |-> SOfInt(-7), nsec |-> 7]

\* Most pieces of a text handed to timeperiod_decode by a caller of its
\* own.
MaxTdPieces == 4

\* The pieces: the letters P and T, one segment of each unit, a number
\* without unit, and a signed hour.
TdPieces ==
    {Chars("P"), Chars("T"), Chars("1D"), Chars("2H"), Chars("3M"),
     Chars("4S"), Chars("4.5S"), Chars("5"), Chars("-2H")}

\* The pieces of a sequence of pieces, one after the other.
RECURSIVE Flatten(_)
Flatten(pieces) ==
    IF pieces = <<>> THEN <<>> ELSE Head(pieces) \o Flatten(Tail(pieces))

\* The texts: a sign or none, then the pieces.
TdTexts ==
    {sign \o Flatten(pieces) :
       sign \in {<<>>, <<"+">>, <<"-">>},
       pieces \in SeqsUpTo(TdPieces, MaxTdPieces)}

TdInit ==
    /\ reg = RegIdle
    /\ i64 = I64Idle
    /\ enc = EncIdle
    /\ alg = AlgIdle
    /\ tp = TpIdle
    /\ b64 = B64Idle
    /\ pct = PctIdle
    /\ sl = SlIdle
    /\ \/ \E sec \in TdSeconds, nsec \in Nanoseconds :
            td = [pc |-> "start", in |-> [sec |-> sec, nsec |-> nsec],
                  text |-> <<>>, out |-> TdOutBefore, rc |-> 0]
       \/ \E text \in TdTexts :
            td = [pc |-> "text", in |-> TdOutBefore, text |-> text,
                  out |-> TdOutBefore, rc |-> 0]

TdEncode ==
    /\ td.pc = "start"
    /\ td' = [td EXCEPT !.pc = "encoded", !.text = TimeperiodEncode(td.in)]
    /\ UNCHANGED NotTd

TdDecode ==
    /\ td.pc \in {"encoded", "text"}
    /\ LET r == TimeperiodDecode(td.text)
       IN td' = [td EXCEPT !.pc = IF td.pc = "encoded" THEN "done"
                                 ELSE "parsed",
                    !.rc = r.rc,
                    !.out = IF r.set THEN [sec |-> r.sec, nsec |-> r.nsec]
                            ELSE td.out]
    /\ UNCHANGED NotTd

SpecTd == TdInit /\ [][TdEncode \/ TdDecode]_vars

\* C8: for every timespec with |tv_sec| < 2^62 and 0 <= tv_nsec < 10^9,
\* timeperiod_decode of the output of timeperiod_encode succeeds and yields
\* the same tv_sec (sign included) and tv_nsec; the zero duration encodes
\* as PT0S.
C8_TimeperiodRoundTrip ==
    /\ (td.pc \in {"encoded", "done"}
            /\ td.in = [sec |-> SOfInt(0), nsec |-> 0])
         => td.text = <<"P", "T", "0", "S">>
    /\ td.pc = "done" => td.rc = 0 /\ td.out = td.in

\* A negative duration with every unit and a fraction has made the round
\* trip.
C8_Witness ==
    /\ td.pc = "done"
    /\ td.in = [sec |-> SOfInt(-90061), nsec |-> 1000]
    /\ td.text = <<"-", "P", "1", "D", "T", "1", "H", "1", "M", "1", ".",
                   "0", "0", "0", "0", "0", "1", "S">>
    /\ td.out = td.in

\* The index after the run of decimal digits of the text at i.
RECURSIVE AfterDigits(_, _)
AfterDigits(text, i) ==
    IF IsDigit(ChAt(text, i)) THEN AfterDigits(text, i + 1) ELSE i

\* The index after the segment <int><unit> at i, or i when there is none.
AfterSegment(text, i, unit) ==
    IF AfterDigits(text, i) > i /\ ChAt(text, AfterDigits(text, i)) = unit
    THEN AfterDigits(text, i) + 1
    ELSE i

\* The index after the segment <int>[.frac]S at i, or i when there is
\* none.
AfterSeconds(text, i) ==
    LET int  == AfterDigits(text, i)
        frac == IF ChAt(text, int) = "." THEN AfterDigits(text, int + 1)
                ELSE int
    IN IF int > i /\ ChAt(text, frac) = "S" THEN frac + 1 ELSE i

\* The text has the form [+|-] P [<int>D] T [<int>H] [<int>M]
\* [<int>[.frac]S] with nothing after it.
IsTimeperiodForm(text) ==
    LET p == IF ChAt(text, 1) \in {"+", "-"} THEN 2 ELSE 1
        t == AfterSegment(text, p + 1, "D")
        h == AfterSegment(text, t + 1, "H")
        m == AfterSegment(text, h, "M")
        e == AfterSeconds(text, m)
    IN /\ ChAt(text, p) = "P"
       /\ ChAt(text, t) = "T"
       /\ e = Len(text) + 1

\* C23: timeperiod_decode returns 0 only for a text of the form
\* [+|-] P [<int>D] T [<int>H] [<int>M] [<int>[.frac]S], the units in
\* that order, each segment an integer immediately followed by its unit,
\* and nothing after the last unit; for every other text it returns a
\* non-zero code and leaves *out unchanged.
C23_TimeperiodDecodeStrictForm ==
    td.pc = "parsed" =>
      /\ td.rc = 0 => IsTimeperiodForm(td.text)
      /\ td.rc # 0 => td.out = TdOutBefore

\* What holds of the code: a text of the form is accepted, and a text
\* that is rejected leaves *out unchanged.
TimeperiodDecodeAcceptsForm ==
    td.pc = "parsed" =>
      /\ IsTimeperiodForm(td.text) => td.rc = 0
      /\ td.rc # 0 => td.out = TdOutBefore

\* PT4S3M has been decoded, as four minutes.
SecondsBeforeMinutesAccepted ==
    /\ td.pc = "parsed"
    /\ td.text = Chars("PT4S3M")
    /\ td.rc = 0
    /\ td.out = [sec |-> SOfInt(240), nsec |-> 0]


(***************************************************************************)
(* utctime_encode / utctime_decode                                         *)
(***************************************************************************)

\* POSIX time at 2000-01-01T00:00:00Z.
dtn_epoch == 946684800

\* gmtime_r of a POSIX time >= 0 held as a magnitude: the broken-down
\* proleptic Gregorian UTC time.
GmtimeR(fullsecs) ==
    LET civil(dm, e) ==
          LET era  == WToInt(e.q)
              doe  == e.r
              yoe  == (doe - doe \div 1460 + doe \div 36524
                         - doe \div 146096) \div 365
              doy  == doe - (365 * yoe + yoe \div 4 - yoe \div 100)
              mp   == (5 * doy + 2) \div 153
              mon  == IF mp < 10 THEN mp + 3 ELSE mp - 9
          IN [year |-> yoe + era * 400 + (IF mon <= 2 THEN 1 ELSE 0),
              mon  |-> mon,
              mday |-> doy - (153 * mp + 2) \div 5 + 1,
              hour |-> dm.r \div 3600,
              min  |-> (dm.r % 3600) \div 60,
              sec  |-> dm.r % 60]
    IN The({The({civil(dm, e) :
                 e \in {WDivMod(WAdd(dm.q, WOfInt(719468)), 146097)}}) :
            dm \in {WDivMod(secs, 86400) : secs \in {fullsecs}}})

\* What strftime would write for the format, given room.
StrftimeText(parts, usesep) ==
    LET dash  == IF usesep THEN <<"-">> ELSE <<>>
        colon == IF usesep THEN <<":">> ELSE <<>>
    IN DecOfInt(parts.year) \o dash \o Padded(parts.mon, 2) \o dash
         \o Padded(parts.mday, 2) \o <<"T">> \o Padded(parts.hour, 2) \o colon
         \o Padded(parts.min, 2) \o colon \o Padded(parts.sec, 2)

\* The contents of `char fullsec[20]` read as a C string after strftime.
\* When the text and its NUL do not fit strftime returns 0 and the array is
\* indeterminate; the result is ignored and the array is appended as it is.
StrftimeBuffers(parts, usesep) ==
    LET full == StrftimeText(parts, usesep)
    IN IF Len(full) + 1 <= 20 THEN {full}
       ELSE {<<>>, SubSeq(full, 1, 19), SubSeq(full, 1, 19) \o <<"?">>}

\* utctime_encode: the texts it can append to out (the return code is 0).
UtctimeEncode(in, usesep) ==
    {buf \o SubsecEncode(in.nsec) \o <<"Z">> :
        buf \in UNION {StrftimeBuffers(parts, usesep) :
                       parts \in {GmtimeR(secs) :
                                  secs \in {WAdd(in.sec.mag,
                                                 WOfInt(dtn_epoch))}}}}

StripCharsBad(text, chars) == SelectSeq(text, LAMBDA c : c # "-")

\* strip_chars: the text without the characters of chars.
StripChars(text, chars) == SelectSeq(text, LAMBDA c : c \notin chars)

RECURSIVE GetNumberRun(_, _, _, _, _)
GetNumberRun(text, i, val, to, n) ==
    IF n > 0 /\ val * 10 <= to /\ IsDigit(ChAt(text, i))
    THEN GetNumberRun(text, i + 1, val * 10 + DigitValue(text[i]), to, n - 1)
    ELSE [val |-> val, i |-> i]

RECURSIVE SkipBlanks(_, _)
SkipBlanks(text, i) ==
    IF ChAt(text, i) = " " THEN SkipBlanks(text, i + 1) ELSE i

\* strptime's number of at most n digits in from..to: blanks are skipped,
\* digits are taken while n allows and the value can still stay <= to.
GetNumber(text, i, from, to, n) ==
    LET s   == SkipBlanks(text, i)
        run == GetNumberRun(text, s + 1, DigitValue(text[s]), to, n - 1)
    IN IF ~IsDigit(ChAt(text, s)) THEN [ok |-> FALSE, val |-> 0, i |-> s]
       ELSE [ok |-> run.val >= from /\ run.val <= to, val |-> run.val,
             i |-> run.i]

\* strptime(curs, "%Y%m%dT%H%M%S", &parts): ok is FALSE for NULL, i is
\* subend.
Strptime(text) ==
    LET y  == GetNumber(text, 1, 0, 9999, 4)
        mo == GetNumber(text, y.i, 1, 12, 2)
        d  == GetNumber(text, mo.i, 1, 31, 2)
        h  == GetNumber(text, d.i + 1, 0, 23, 2)
        mi == GetNumber(text, h.i, 0, 59, 2)
        s  == GetNumber(text, mi.i, 0, 61, 2)
        ok == /\ y.ok
              /\ mo.ok
              /\ d.ok
              /\ ChAt(text, d.i) = "T"
              /\ h.ok
              /\ mi.ok
              /\ s.ok
    IN IF ok
       THEN [ok |-> TRUE, i |-> s.i,
             parts |-> [year |-> y.val, mon |-> mo.val, mday |-> d.val,
                        hour |-> h.val, min |-> mi.val, sec |-> s.val]]
       ELSE [ok |-> FALSE, i |-> 1,
             parts |-> [year |-> 0, mon |-> 0, mday |-> 0, hour |-> 0,
                        min |-> 0, sec |-> 0]]

\* mktime with TZ set to UTC, for the fields strptime can produce: the
\* POSIX time, normalising a day past the end of its month.
Mktime(parts) ==
    LET y    == parts.year - (IF parts.mon <= 2 THEN 1 ELSE 0)
        era  == y \div 400
        yoe  == y - era * 400
        mp   == IF parts.mon > 2 THEN parts.mon - 3 ELSE parts.mon + 9
        doy  == (153 * mp + 2) \div 5 + parts.mday - 1
        doe  == yoe * 365 + yoe \div 4 - yoe \div 100 + doy
        days == era * 146097 + doe - 719468
        tod  == parts.hour * 3600 + parts.min * 60 + parts.sec
    IN IF days < 0
       THEN [neg |-> TRUE, mag |-> WOfInt((-days) * 86400 - tod)]
       ELSE [neg |-> FALSE, mag |-> WMulSmall(WOfInt(days), 86400, tod)]

\* utctime_decode of the text: the return code and, when it is 0, the
\* timespec stored in *out.
UtctimeDecode(text) ==
    LET unsep   == StripChars(text, {"-", ":"})
        end     == Len(unsep) + 1
        tm      == Strptime(unsep)
        fullsec == Mktime(tm.parts)
        ss      == SubsecDecode(unsep, tm.i, end - 1)
        err(rc) == [rc |-> rc, set |-> FALSE, sec |-> SOfInt(0), nsec |-> 0]
    IN IF ~tm.ok THEN err(2)
       ELSE IF fullsec.neg THEN err(2)
       ELSE IF ss.rc # 0 THEN err(2)
       ELSE IF ss.i = end \/ ChAt(unsep, ss.i) # "Z" THEN err(2)
       ELSE IF ss.i + 1 < end THEN err(3)
       ELSE [rc |-> 0, set |-> TRUE,
             sec |-> SAdd(fullsec, SOfInt(-dtn_epoch)), nsec |-> ss.subsec]

\* First tv_sec of the year 10000: 252455616000.
Year10000 == <<6000, 5561, 2524>>

\* Seconds since the DTN epoch of the times tried, up to 2^53 - 1; among
\* them 2000-02-29, 2100-03-01, the last second of 9999 and the first of
\* 10000.
TpSeconds ==
    {[neg |-> FALSE, mag |-> mag] :
        mag \in {WOfInt(n) : n \in {0, 1, 59, 86399, 5097600, 31622400,
                                    2147483647}}
                \cup {<<7600, 6085, 31>>, <<5999, 5561, 2524>>, Year10000,
                      <<991, 5474, 1992, 9007>>}}

\* The caller's *out before utctime_decode is called.
TpOutBefore == [sec |-> SOfInt(-7), nsec |-> 7]

TpInit ==
    /\ reg = RegIdle
    /\ i64 = I64Idle
    /\ enc = EncIdle
    /\ alg = AlgIdle
    /\ b64 = B64Idle
    /\ pct = PctIdle
    /\ sl = SlIdle
    /\ td = TdIdle
    /\ \E sec \in TpSeconds, nsec \in Nanoseconds, usesep \in BOOLEAN :
        tp = [pc |-> "start", in |-> [sec |-> sec, nsec |-> nsec],
              usesep |-> usesep, text |-> <<>>, out |-> TpOutBefore,
              rc |-> 0]

TpEncode ==
    /\ tp.pc = "start"
    /\ \E text \in UtctimeEncode(tp.in, tp.usesep) :
        tp' = [tp EXCEPT !.pc = "encoded", !.text = text]
    /\ UNCHANGED NotTp

TpDecode ==
    /\ tp.pc = "encoded"
    /\ LET r == UtctimeDecode(tp.text)
       IN tp' = [tp EXCEPT !.pc = "done", !.rc = r.rc,
                    !.out = IF r.set THEN [sec |-> r.sec, nsec |-> r.nsec]
                            ELSE tp.out]
    /\ UNCHANGED NotTp

SpecTp == TpInit /\ [][TpEncode \/ TpDecode]_vars

\* C9 (as stated): for every timespec with tv_sec in [0, 2^53) and
\* 0 <= tv_nsec < 10^9 and both separator settings, utctime_decode of the
\* output of utctime_encode succeeds and yields the same timespec.
C9_UtctimeRoundTripTo2Pow53 ==
    tp.pc = "done" => tp.rc = 0 /\ tp.out = tp.in

\* C9 (amended): for every timespec with tv_sec in [0, 252455616000), the
\* times up to 9999-12-31T23:59:59Z, and 0 <= tv_nsec < 10^9 and both
\* separator settings, utctime_decode of the output of utctime_encode
\* succeeds and yields the same timespec.
C9_UtctimeRoundTrip ==
    (tp.pc = "done" /\ WLess(tp.in.sec.mag, Year10000))
        => tp.rc = 0 /\ tp.out = tp.in

\* The last second of the year 9999 with a fraction has made the round
\* trip with separators.
C9_Witness ==
    /\ tp.pc = "done"
    /\ tp.usesep
    /\ tp.in = [sec |-> [neg |-> FALSE, mag |-> <<5999, 5561, 2524>>],
                nsec |-> 500000000]
    /\ tp.text = <<"9", "9", "9", "9", "-", "1", "2", "-", "3", "1", "T",
                   "2", "3", ":", "5", "9", ":", "5", "9", ".", "5", "Z">>
    /\ tp.out = tp.in


(***************************************************************************)
(* ARI values (ari_t).  One record shape serves literals and references:   *)
(* value holds the primitive as integers (a boolean as 0 or 1, a float64   *)
(* as its four 16-bit words, most significant first, text and bytes as     *)
(* their bytes, a timespec as seconds and nanoseconds), items the          *)
(* contained ARIs in iteration order (an AM as key, value, key, value,     *)
(* ...; for a reference its parameters), hdr the header ARIs (EXECSET:     *)
(* nonce; RPTSET: nonce, reftime; report: reltime, source) and reports     *)
(* the reports of an RPTSET.                                               *)
(***************************************************************************)

\* An idseg: form is "NULL", "TEXT" or "INT".
Idseg(form, as_text, as_int) ==
    [form |-> form, as_text |-> as_text, as_int |-> as_int]

ObjPath(ns_id, type_id, has_ari_type, ari_type, obj_id) ==
    [ns_id |-> ns_id, type_id |-> type_id, has_ari_type |-> has_ari_type,
     ari_type |-> ari_type, obj_id |-> obj_id]

\* A literal without ari_type.
Lit(prim_type, value) ==
    [is_ref |-> FALSE, has_ari_type |-> FALSE, ari_type |-> "",
     prim_type |-> prim_type, value |-> value, ncols |-> 0, hdr |-> <<>>,
     items |-> <<>>, reports |-> <<>>,
     objpath |-> ObjPath(Idseg("NULL", "", 0), Idseg("NULL", "", 0), FALSE,
                         "", Idseg("NULL", "", 0)),
     state |-> "NONE"]

\* A literal with ari_type.
TypedLit(ari_type, prim_type, value) ==
    [Lit(prim_type, value) EXCEPT !.has_ari_type = TRUE,
                                  !.ari_type = ari_type]

\* A container literal: AC, AM, TBL (with ncols), EXECSET, RPTSET.
Container(ari_type, ncols, hdr, items, reports) ==
    [TypedLit(ari_type, "OTHER", <<>>) EXCEPT !.ncols = ncols, !.hdr = hdr,
                                              !.items = items,
                                              !.reports = reports]

\* A report of an RPTSET.
Report(reltime, source, items) == [hdr |-> <<reltime, source>>, items |-> items]

\* An object reference; state is "NONE", "AC" or "AM".
Ref(objpath, state, items) ==
    [Lit("UNDEFINED", <<>>) EXCEPT !.is_ref = TRUE, !.objpath = objpath,
                                   !.state = state, !.items = items]

(***************************************************************************)
(* ari_visit                                                               *)
(***************************************************************************)

\* Bound on the position of the first callback invocation that fails.
MaxFailAt == 6

\* The ARIs walked.
VisitTrees ==
    LET null  == Lit("NULL", <<>>)
        true  == Lit("BOOL", <<1>>)
        ten   == Lit("UINT64", <<10>>)
        path  == ObjPath(Idseg("TEXT", "adm", 0), Idseg("TEXT", "CTRL", 0),
                         TRUE, "CTRL", Idseg("TEXT", "do", 0))
        ctrl  == Ref(path, "NONE", <<>>)
        ac    == Container("AC", 0, <<>>, <<null, ctrl>>, <<>>)
        am    == Container("AM", 0, <<>>, <<ten, ac, true, null>>, <<>>)
        rpt   == Report(ten, ctrl, <<true, ac>>)
    IN {null, ctrl, ac, am,
        Container("AC", 0, <<>>, <<>>, <<>>),
        Container("TBL", 2, <<>>, <<ten, true, null, ten>>, <<>>),
        Container("EXECSET", 0, <<ten>>, <<ctrl, ac>>, <<>>),
        Container("RPTSET", 0, <<null, ten>>, <<>>, <<rpt, rpt>>),
        Ref(path, "AC", <<ten, am>>),
        Ref(path, "AM", <<ten, ctrl>>)}

\* The code the visitor's callbacks return at their n-th invocation.
\* A failAt of 0 is a visitor whose callbacks always return 0.
VisitorCode(visitor, n) ==
    IF visitor.failAt = 0 \/ n < visitor.failAt THEN 0
    ELSE IF n = visitor.failAt THEN 3 ELSE 5

RECURSIVE ReportChildren(_)
ReportChildren(reports) ==
    IF reports = <<>> THEN <<>>
    ELSE Head(reports).hdr \o Head(reports).items
           \o ReportChildren(Tail(reports))

\* The container that ari_visit_ari enters for the ARI: the state of a
\* reference's parameters or the ari_type of a literal.
VisitKind(ari) ==
    IF ari.is_ref THEN ari.state
    ELSE IF ari.has_ari_type THEN ari.ari_type ELSE "NONE"

VisitChildrenBad(ari) ==
    LET kind  == VisitKind(ari)
        plain(s) == [k \in 1..Len(s) |-> [ari |-> s[k], is_map_key |-> FALSE]]
    IN IF kind = "AM"
       THEN [k \in 1..Len(ari.items) |->
                [ari |-> ari.items[k], is_map_key |-> FALSE]]
       ELSE IF kind \in {"AC", "TBL", "EXECSET"} THEN plain(ari.items)
       ELSE IF kind = "RPTSET"
       THEN plain(ari.hdr \o ReportChildren(ari.reports))
       ELSE <<>>

\* The ARIs that ari_visit_ac, _am, _tbl, _execset and _rptset (with
\* ari_visit_report) pass to ari_visit_ari, in order, each with the
\* is_map_key its context has at the call.
VisitChildren(ari) ==
    LET kind  == VisitKind(ari)
        plain(s) == [k \in 1..Len(s) |-> [ari |-> s[k], is_map_key |-> FALSE]]
    IN IF kind = "AM"
       THEN [k \in 1..Len(ari.items) |->
                [ari |-> ari.items[k], is_map_key |-> k % 2 = 1]]
       ELSE IF kind \in {"AC", "TBL", "EXECSET"} THEN plain(ari.items)
       ELSE IF kind = "RPTSET"
       THEN plain(ari.hdr \o ReportChildren(ari.reports))
       ELSE <<>>

VisitCallbacksBad(ari, visitor, ctx) ==
    LET sub_ctx == [parent |-> <<ari>>, is_map_key |-> FALSE]
        one(present, cb, c) ==
            IF present THEN <<[cb |-> cb, ctx |-> c]>> ELSE <<>>
    IN (IF ari.is_ref
        THEN one(visitor.visit_ref, "visit_ref", sub_ctx)
               \o one(visitor.visit_objpath, "visit_objpath", sub_ctx)
        ELSE one(visitor.visit_lit, "visit_lit", sub_ctx))
         \o one(visitor.visit_ari, "visit_ari", ctx)

\* The callbacks of the visitor that ari_visit_ari invokes for the ARI, in
\* order, each with the context it is given.
VisitCallbacks(ari, visitor, ctx) ==
    LET sub_ctx == [parent |-> <<ari>>, is_map_key |-> FALSE]
        one(present, cb, c) ==
            IF present THEN <<[cb |-> cb, ctx |-> c]>> ELSE <<>>
    IN one(visitor.visit_ari, "visit_ari", ctx)
         \o (IF ari.is_ref
             THEN one(visitor.visit_ref, "visit_ref", sub_ctx)
                    \o one(visitor.visit_objpath, "visit_objpath", sub_ctx)
             ELSE one(visitor.visit_lit, "visit_lit", sub_ctx))

\* The callback invocations of ari_visit_ari, each followed by CHKERRVAL.
RECURSIVE VisitInvoke(_, _, _, _)
VisitInvoke(cbs, ari, log, visitor) ==
    IF cbs = <<>> THEN [log |-> log, ret |-> 0]
    ELSE LET code == VisitorCode(visitor, Len(log) + 1)
             log1 == Append(log, [cb |-> Head(cbs).cb, ari |-> ari,
                                  ctx |-> Head(cbs).ctx, ret |-> code])
         IN IF code # 0 THEN [log |-> log1, ret |-> code]
            ELSE VisitInvoke(Tail(cbs), ari, log1, visitor)

RECURSIVE AriVisitAri(_, _, _, _)
RECURSIVE AriVisitItemsBad(_, _, _, _)
RECURSIVE AriVisitItems(_, _, _, _)

AriVisitItemsBad(children, parent, log, visitor) ==
    IF children = <<>> THEN [log |-> log, ret |-> 0]
    ELSE LET ctx == [parent |-> <<parent>>,
                     is_map_key |-> Head(children).is_map_key]
             res == AriVisitAri(Head(children).ari, ctx, log, visitor)
         IN AriVisitItems(Tail(children), parent, res.log, visitor)

\* The loops of ari_visit_ac, _am, _tbl, _execset, _report and _rptset:
\* each child is visited and a non-zero result returned at once.
AriVisitItems(children, parent, log, visitor) ==
    IF children = <<>> THEN [log |-> log, ret |-> 0]
    ELSE LET ctx == [parent |-> <<parent>>,
                     is_map_key |-> Head(children).is_map_key]
             res == AriVisitAri(Head(children).ari, ctx, log, visitor)
         IN IF res.ret # 0 THEN res
            ELSE AriVisitItems(Tail(children), parent, res.log, visitor)

\* ari_visit_ari: the callback invocations logged so far and the value
\* returned.  retval is returned uninitialised when no callback was invoked
\* and no container entered; visitor.garbage is the value read then.
AriVisitAri(ari, ctx, log, visitor) ==
    LET cbs    == VisitCallbacks(ari, visitor, ctx)
        called == VisitInvoke(cbs, ari, log, visitor)
        enters == IF ari.is_ref THEN ari.state \in {"AC", "AM"}
                  ELSE ari.has_ari_type
                         /\ ari.ari_type \in {"AC", "AM", "TBL", "EXECSET",
                                              "RPTSET"}
    IN IF called.ret # 0 THEN called
       ELSE IF enters
       THEN AriVisitItems(VisitChildren(ari), ari, called.log, visitor)
       ELSE [log |-> called.log,
             ret |-> IF cbs = <<>> THEN visitor.garbage ELSE 0]

\* ari_visit with user_data left aside.
AriVisit(ari, visitor) ==
    AriVisitAri(ari, [parent |-> <<>>, is_map_key |-> FALSE], <<>>, visitor)

VisitInit ==
    /\ reg = RegIdle
    /\ i64 = I64Idle
    /\ enc = EncIdle
    /\ b64 = B64Idle
    /\ pct = PctIdle
    /\ sl = SlIdle
    /\ td = TdIdle
    /\ tp = TpIdle
    /\ \E ari \in VisitTrees, cbs \in [1..4 -> BOOLEAN],
          failAt \in 0..MaxFailAt, garbage \in {0, 77} :
        alg = [pc |-> "start", ari |-> ari,
               visitor |-> [visit_ari |-> cbs[1], visit_ref |-> cbs[2],
                            visit_lit |-> cbs[3], visit_objpath |-> cbs[4],
                            failAt |-> failAt, garbage |-> garbage],
               log |-> <<>>, ret |-> 0]

VisitCall ==
    /\ alg.pc = "start"
    /\ LET res == AriVisit(alg.ari, alg.visitor)
       IN alg' = [alg EXCEPT !.pc = "done", !.log = res.log, !.ret = res.ret]
    /\ UNCHANGED NotAlg

SpecVisit == VisitInit /\ [][VisitCall]_vars

\* C10: once a visitor callback (visit_ari, visit_ref, visit_lit or
\* visit_objpath, at any depth) has returned a non-zero code, no further
\* callback is invoked and ari_visit returns that code.
C10_VisitAbortsOnFirstNonZero ==
    alg.pc = "done" =>
        \A k \in 1..Len(alg.log) :
            alg.log[k].ret # 0 => k = Len(alg.log) /\ alg.ret = alg.log[k].ret

\* A visit_objpath callback two levels down, on the reference inside the AC
\* that is a value of the AM, has aborted the walk with its code.
C10_Witness ==
    /\ alg.pc = "done"
    /\ alg.ret = 3
    /\ Len(alg.log) = alg.visitor.failAt
    /\ alg.log[Len(alg.log)].cb = "visit_objpath"
    /\ alg.log[Len(alg.log)].ctx.parent # <<alg.ari>>
    /\ alg.log[Len(alg.log)].ret = 3
    /\ \A k \in 1..(Len(alg.log) - 1) : alg.log[k].ret = 0

\* The callbacks a pre-order walk of the ARI makes with a visitor that has
\* all four of them: visit_ari of the node with its parent, visit_ref or
\* visit_lit, visit_objpath for a reference, then the walks of the children
\* (reference parameters, or the items of a tagged container literal) in
\* container order with the node as parent.  Each is marked with whether
\* the node is the key of a pair of an AM.
RECURSIVE PreOrder(_, _, _)
RECURSIVE PreOrderOfAll(_, _, _, _)
PreOrderOfAll(children, k, parent, is_map) ==
    IF k > Len(children) THEN <<>>
    ELSE PreOrder(children[k], parent, is_map /\ k % 2 = 1)
           \o PreOrderOfAll(children, k + 1, parent, is_map)

PreOrder(node, parent, key) ==
    LET at(cb) == [cb |-> cb, ari |-> node, parent |-> parent, key |-> key]
        kind == IF node.is_ref THEN node.state
                ELSE IF node.has_ari_type THEN node.ari_type ELSE "NONE"
        children == IF kind \in {"AC", "AM", "TBL", "EXECSET"} THEN node.items
                    ELSE IF kind = "RPTSET"
                    THEN node.hdr \o ReportChildren(node.reports)
                    ELSE <<>>
    IN <<at("visit_ari")>>
         \o (IF node.is_ref THEN <<at("visit_ref"), at("visit_objpath")>>
             ELSE <<at("visit_lit")>>)
         \o PreOrderOfAll(children, 1, <<node>>, kind = "AM")

\* The pre-order callbacks that the visitor of the call has.
PreOrderOfVisitor ==
    LET has(e) == CASE e.cb = "visit_ari" -> alg.visitor.visit_ari
                    [] e.cb = "visit_ref" -> alg.visitor.visit_ref
                    [] e.cb = "visit_lit" -> alg.visitor.visit_lit
                    [] e.cb = "visit_objpath" -> alg.visitor.visit_objpath
    IN SelectSeq(PreOrder(alg.ari, <<>>, FALSE), has)

C12_MapKeyFlagOnEveryCallback ==
    alg.pc = "done" =>
        \A k \in 1..Len(alg.log) :
            LET at == PreOrderOfVisitor[k]
            IN at.parent # <<>> /\ VisitKind(at.parent[1]) = "AM" =>
                 alg.log[k].ctx.is_map_key = at.key

\* C12, amended: the context of the visit_ari callback invoked for a key of
\* an AM has is_map_key set and that of the visit_ari callback invoked for a
\* value of an AM has it clear; the context of every visit_lit, visit_ref
\* and visit_objpath callback, of a key as of any other ARI, has it clear.
C12_MapKeyFlag ==
    alg.pc = "done" =>
        \A k \in 1..Len(alg.log) :
            alg.log[k].ctx.is_map_key =
                (PreOrderOfVisitor[k].key /\ alg.log[k].cb = "visit_ari")

\* The walk of an AM has invoked visit_ari and visit_lit for a key and
\* visit_ari for the value after it.
C12_Witness ==
    /\ alg.pc = "done"
    /\ \E k \in 1..(Len(alg.log) - 2) :
         /\ alg.log[k].cb = "visit_ari"
         /\ alg.log[k].ctx.is_map_key
         /\ VisitKind(alg.log[k].ctx.parent[1]) = "AM"
         /\ alg.log[k + 1].cb = "visit_lit"
         /\ alg.log[k + 1].ari = alg.log[k].ari
         /\ ~alg.log[k + 1].ctx.is_map_key
         /\ alg.log[k + 2].cb = "visit_ari"
         /\ alg.log[k + 2].ctx.parent = alg.log[k].ctx.parent
         /\ ~alg.log[k + 2].ctx.is_map_key


(***************************************************************************)
(* ari_hash / ari_equal                                                    *)
(***************************************************************************)

\* One value mixed into the accumulator by M_HASH_UP.  The hash functions
\* of the library are taken as injective: equal hashes stand for equal
\* sequences of mixed-in values.
HashOf(kind, form, text, bits) ==
    [kind |-> kind, form |-> form, text |-> text, bits |-> bits]

\* ari_idseg_hash: a function of the form and content of the segment.
AriIdsegHash(seg) ==
    HashOf("idseg", seg.form, IF seg.form = "TEXT" THEN seg.as_text ELSE "",
           IF seg.form = "INT" THEN <<seg.as_int>> ELSE <<>>)

\* ari_hash_visit_objpath: the values mixed in.
AriHashVisitObjpath(path) ==
    <<AriIdsegHash(path.ns_id),
      IF path.has_ari_type THEN HashOf("ari_type", "", path.ari_type, <<>>)
      ELSE AriIdsegHash(path.type_id),
      AriIdsegHash(path.obj_id)>>

\* ari_hash_visit_lit: the values mixed in.
AriHashVisitLit(obj) ==
    <<HashOf("bool", "", "", <<IF obj.has_ari_type THEN 1 ELSE 0>>)>>
      \o (IF obj.has_ari_type
          THEN <<HashOf("ari_type_default", "", obj.ari_type, <<>>)>>
                 \o (IF obj.ari_type = "TBL"
                     THEN <<HashOf("size_t", "", "", <<obj.ncols>>)>>
                     ELSE <<>>)
          ELSE <<>>)
      \o <<HashOf("prim_type", "", obj.prim_type, <<>>)>>
      \o (IF obj.prim_type \in {"BOOL", "UINT64", "INT64", "FLOAT64", "TSTR",
                                "BSTR", "TIMESPEC"}
          THEN <<HashOf("value", "", obj.prim_type, obj.value)>>
          ELSE <<>>)

\* ari_hash: the walk with visit_objpath and visit_lit, its result ignored.
AriHash(ari) ==
    LET visitor == [visit_ari |-> FALSE, visit_ref |-> FALSE,
                    visit_lit |-> TRUE, visit_objpath |-> TRUE,
                    failAt |-> 0, garbage |-> 0]
        log == AriVisit(ari, visitor).log
        up[n \in 0..Len(log)] ==
            IF n = 0 THEN <<>>
            ELSE up[n - 1]
                   \o (IF log[n].cb = "visit_objpath"
                       THEN AriHashVisitObjpath(log[n].ari.objpath)
                       ELSE AriHashVisitLit(log[n].ari))
    IN up[Len(log)]

\* isnan of a float64 given as four 16-bit words.
IsNan(f) ==
    /\ (f[1] % 32768) \div 16 = 2047
    /\ f[1] % 16 # 0 \/ f[2] # 0 \/ f[3] # 0 \/ f[4] # 0

\* The float64 comparison of ari_equal: both NaN, or neither and equal as
\* numbers (the two zeros are equal).
Float64Equal(l, r) ==
    /\ IsNan(l) = IsNan(r)
    /\ \/ IsNan(l)
       \/ l = r
       \/ (l[1] % 32768 = 0 /\ r[1] % 32768 = 0
             /\ SubSeq(l, 2, 4) = <<0, 0, 0>> /\ SubSeq(r, 2, 4) = <<0, 0, 0>>)

\* ari_idseg_equal.
AriIdsegEqual(l, r) ==
    /\ l.form = r.form
    /\ l.form = "TEXT" => l.as_text = r.as_text
    /\ l.form = "INT" => l.as_int = r.as_int

\* ari_objpath_equal.
AriObjpathEqual(left, right) ==
    LET type_equal == IF left.has_ari_type /\ right.has_ari_type
                      THEN left.ari_type = right.ari_type
                      ELSE AriIdsegEqual(left.type_id, right.type_id)
    IN /\ AriIdsegEqual(left.ns_id, right.ns_id)
       /\ type_equal
       /\ AriIdsegEqual(left.obj_id, right.obj_id)

RECURSIVE AriEqual(_, _)

\* ari_ac_equal, ari_am_equal, ari_tbl_equal, ari_execset_equal and
\* ari_rptset_equal on the contents named by kind: ordered lists item by
\* item, a map as a set of entries, TBL with its ncols, EXECSET and RPTSET
\* field by field.
ContainerEqual(kind, l, r) ==
    LET list(a, b) == /\ Len(a) = Len(b)
                      /\ \A k \in 1..Len(a) : AriEqual(a[k], b[k])
        entries(a) == {k \in 1..Len(a) : k % 2 = 1}
    IN IF kind = "AM"
       THEN /\ Len(l.items) = Len(r.items)
            /\ \A i \in entries(l.items) : \E j \in entries(r.items) :
                  /\ AriEqual(l.items[i], r.items[j])
                  /\ AriEqual(l.items[i + 1], r.items[j + 1])
       ELSE /\ l.ncols = r.ncols
            /\ list(l.hdr, r.hdr)
            /\ list(l.items, r.items)
            /\ Len(l.reports) = Len(r.reports)
            /\ \A k \in 1..Len(l.reports) :
                  /\ list(l.reports[k].hdr, r.reports[k].hdr)
                  /\ list(l.reports[k].items, r.reports[k].items)

\* ari_params_equal.
AriParamsEqual(left, right) ==
    /\ left.state = right.state
    /\ left.state # "NONE" => ContainerEqual(left.state, left, right)

\* ari_equal.
AriEqual(left, right) ==
    IF left.is_ref # right.is_ref THEN FALSE
    ELSE IF left.is_ref
    THEN AriObjpathEqual(left.objpath, right.objpath)
           /\ AriParamsEqual(left, right)
    ELSE IF left.has_ari_type # right.has_ari_type THEN FALSE
    ELSE IF left.has_ari_type /\ left.ari_type # right.ari_type THEN FALSE
    ELSE IF left.has_ari_type
              /\ left.ari_type \in {"AC", "AM", "TBL", "EXECSET", "RPTSET"}
              /\ ~ContainerEqual(left.ari_type, left, right) THEN FALSE
    ELSE IF left.prim_type # right.prim_type THEN FALSE
    ELSE IF left.prim_type = "FLOAT64"
    THEN Float64Equal(left.value, right.value)
    ELSE IF left.prim_type \in {"BOOL", "UINT64", "INT64", "TSTR", "BSTR",
                                "TIMESPEC"}
    THEN left.value = right.value
    ELSE TRUE

\* The ARIs compared and hashed: the float64 values 0.0, -0.0, 1.5 and two
\* NaNs, references whose paths carry ari_type, type_id or both, and
\* containers of them.
HashAris ==
    LET adm     == Idseg("TEXT", "adm", 0)
        do      == Idseg("TEXT", "do", 0)
        typed   == Ref(ObjPath(adm, Idseg("TEXT", "CTRL", 0), TRUE, "CTRL", do),
                       "NONE", <<>>)
        untyped == Ref(ObjPath(adm, Idseg("TEXT", "CTRL", 0), FALSE, "", do),
                       "NONE", <<>>)
        byint   == Ref(ObjPath(adm, Idseg("INT", "", -3), TRUE, "CTRL", do),
                       "NONE", <<>>)
        zero    == Lit("FLOAT64", <<0, 0, 0, 0>>)
        negzero == Lit("FLOAT64", <<32768, 0, 0, 0>>)
        nan     == Lit("FLOAT64", <<32760, 0, 0, 0>>)
        ten     == Lit("UINT64", <<10>>)
    IN {typed, untyped, byint, zero, negzero, nan, ten,
        Lit("FLOAT64", <<16376, 0, 0, 0>>),
        Lit("FLOAT64", <<32760, 0, 0, 1>>),
        TypedLit("UINT", "UINT64", <<10>>),
        Lit("TSTR", <<104, 105, 0>>),
        Container("AC", 0, <<>>, <<ten, typed>>, <<>>),
        Container("AC", 0, <<>>, <<ten, byint>>, <<>>),
        Container("AM", 0, <<>>, <<ten, nan>>, <<>>),
        Ref(ObjPath(adm, Idseg("TEXT", "CTRL", 0), TRUE, "CTRL", do), "AC",
            <<ten>>)}

HashInit ==
    /\ reg = RegIdle
    /\ i64 = I64Idle
    /\ enc = EncIdle
    /\ b64 = B64Idle
    /\ pct = PctIdle
    /\ sl = SlIdle
    /\ td = TdIdle
    /\ tp = TpIdle
    /\ \E a \in HashAris, b \in HashAris :
        alg = [pc |-> "start", a |-> a, b |-> b, equal |-> FALSE,
               hash_a |-> <<>>, hash_b |-> <<>>]

HashCompare ==
    /\ alg.pc = "start"
    /\ alg' = [alg EXCEPT !.pc = "done", !.equal = AriEqual(alg.a, alg.b),
                          !.hash_a = AriHash(alg.a), !.hash_b = AriHash(alg.b)]
    /\ UNCHANGED NotAlg

SpecHash == HashInit /\ [][HashCompare]_vars

\* C2: for all ARIs a and b, with any combination of has_ari_type and
\* type_id on their object paths and any float64 values, ari_equal(a, b)
\* implies ari_hash(a) = ari_hash(b).
C2_EqualImpliesSameHash ==
    (alg.pc = "done" /\ alg.equal) => alg.hash_a = alg.hash_b


(***************************************************************************)
(* ari_translate                                                           *)
(***************************************************************************)

\* ARI_INIT_UNDEFINED, the value of an output ARI before translation.
AriInitUndefined == Lit("UNDEFINED", <<>>)

RECURSIVE AriTranslate(_, _)

\* ari_map_ac, ari_map_am (is_map) and ari_map_tbl from the k-th input
\* item on: the output items and the value returned.  An output item is
\* stored before the result of its translation is checked; a map entry is
\* created by its translated key with an undefined value.
RECURSIVE AriMapItems(_, _, _, _, _)
AriMapItems(in_items, is_map, k, out_items, translator) ==
    IF k > Len(in_items) THEN [items |-> out_items, ret |-> 0]
    ELSE LET res   == AriTranslate(in_items[k], translator)
             slot  == IF is_map /\ k % 2 = 1 /\ k < Len(in_items)
                      THEN <<AriInitUndefined>> ELSE <<>>
         IN IF res.ret # 0
            THEN [items |-> out_items \o <<res.out>> \o slot, ret |-> res.ret]
            ELSE AriMapItems(in_items, is_map, k + 1,
                             out_items \o <<res.out>>, translator)

\* ari_translate into an output ARI that is ARI_INIT_UNDEFINED.  A mapper
\* that is present is taken to copy its input, as the default does, and to
\* return 0.  retval is returned uninitialised when no mapper ran and no
\* container was mapped; translator.garbage is the value read then.
AriTranslate(in, translator) ==
    LET ran    == translator.map_ari
                    \/ (IF in.is_ref THEN translator.map_objpath
                        ELSE translator.map_lit)
        retval == IF ran THEN 0 ELSE translator.garbage
        mapped == AriMapItems(in.items, (IF in.is_ref THEN in.state
                                         ELSE in.ari_type) = "AM",
                              1, <<>>, translator)
    IN IF in.is_ref
       THEN LET out == [AriInitUndefined EXCEPT !.is_ref = TRUE,
                                                !.objpath = in.objpath]
            IN IF in.state = "NONE" THEN [out |-> out, ret |-> retval]
               ELSE IF mapped.ret # 0 THEN [out |-> out, ret |-> mapped.ret]
               ELSE [out |-> [out EXCEPT !.state = "NONE",
                                         !.items = mapped.items],
                     ret |-> 0]
       ELSE IF in.has_ari_type /\ in.ari_type \in {"AC", "AM", "TBL"}
       THEN [out |-> Container(in.ari_type,
                               IF in.ari_type = "TBL" THEN in.ncols ELSE 0,
                               <<>>, mapped.items, <<>>),
             ret |-> mapped.ret]
       ELSE [out |-> [in EXCEPT !.is_ref = FALSE], ret |-> retval]

\* The ARIs translated.
TranslateAris ==
    LET path == ObjPath(Idseg("TEXT", "adm", 0), Idseg("TEXT", "CTRL", 0),
                        TRUE, "CTRL", Idseg("TEXT", "do", 0))
        ten  == Lit("UINT64", <<10>>)
        true == Lit("BOOL", <<1>>)
        ctrl == Ref(path, "NONE", <<>>)
        ac   == Container("AC", 0, <<>>, <<ten, ctrl>>, <<>>)
    IN {ten, ctrl, ac,
        TypedLit("UINT", "UINT64", <<10>>),
        Container("AC", 0, <<>>, <<>>, <<>>),
        Container("AM", 0, <<>>, <<ten, ac, true, ctrl>>, <<>>),
        Container("TBL", 2, <<>>, <<ten, true>>, <<>>),
        Container("EXECSET", 0, <<ten>>, <<ctrl>>, <<>>),
        Ref(path, "AC", <<>>),
        Ref(path, "AC", <<ten, ac>>),
        Ref(path, "AM", <<ten, true>>)}

TranslateInit ==
    /\ reg = RegIdle
    /\ i64 = I64Idle
    /\ enc = EncIdle
    /\ b64 = B64Idle
    /\ pct = PctIdle
    /\ sl = SlIdle
    /\ td = TdIdle
    /\ tp = TpIdle
    /\ \E in \in TranslateAris, maps \in [1..3 -> BOOLEAN],
          garbage \in {0, 77} :
        alg = [pc |-> "start", in |-> in,
               translator |-> [map_ari |-> maps[1], map_objpath |-> maps[2],
                               map_lit |-> maps[3], garbage |-> garbage],
               out |-> AriInitUndefined, ret |-> 0]

TranslateCall ==
    /\ alg.pc = "start"
    /\ LET res == AriTranslate(alg.in, alg.translator)
       IN alg' = [alg EXCEPT !.pc = "done", !.out = res.out, !.ret = res.ret]
    /\ UNCHANGED NotAlg

SpecTranslate == TranslateInit /\ [][TranslateCall]_vars

\* C3: for every ARI in (literal or reference, parameters in state NONE, AC
\* or AM), ari_translate with a translator whose mappers are all absent
\* produces an out with ari_equal(out, in): for a reference, the same
\* parameter state and parameter contents.
C3_TranslateCopies ==
    (alg.pc = "done" /\ ~alg.translator.map_ari
        /\ ~alg.translator.map_objpath /\ ~alg.translator.map_lit)
      => AriEqual(alg.out, alg.in)


(***************************************************************************)
(* ari_text_encode.  Output text is a sequence of one-character strings.   *)
(* The encoder state st holds out, depth and the scheme_prefix of the      *)
(* options, which header fields override and restore; st.prefixes records  *)
(* each call of ari_text_encode_prefix.  The argument hdr tells where the  *)
(* ARI being encoded stands: 0 outside every EXECSET, RPTSET and report    *)
(* header field, 1 a header field itself, 2 nested inside a header field.  *)
(***************************************************************************)

\* The character of a byte of text; a byte that is not printable, and the
\* grave accent, is written \x followed by its number.
Chr(b) ==
    LET printable == " !\"#$%&'()*+,-./0123456789:;<=>?@ABCDEFGHIJKLMNOPQRS"
                       \o "TUVWXYZ[\\]^_ abcdefghijklmnopqrstuvwxyz{|}~"
    IN IF b \in 32..126 /\ b # 96 THEN SubSeq(printable, b - 31, b - 31)
       ELSE "\\x" \o ToString(b)

\* The text of a byte sequence.
Text(bytes) == [k \in 1..Len(bytes) |-> Chr(bytes[k])]

\* The bytes of a C string: those before the first NUL.
CStr(mem) ==
    LET nul == Strchr(mem \o <<0>>, 1, 0) IN SubSeq(mem, 1, nul - 1)

\* string_push_back / string_cat_str / string_cat_printf on state->out.
Put(st, chars) == [st EXCEPT !.out = @ \o chars]

AriTextEncodePrefixBad(st, hdr) ==
    LET emit == /\ st.scheme_prefix # "NONE"
                /\ st.scheme_prefix = "FIRST" => st.depth <= 1
        st1  == [st EXCEPT !.prefixes =
                    Append(@, [depth |-> st.depth, hdr |-> hdr,
                               scheme_prefix |-> st.scheme_prefix,
                               emitted |-> emit])]
    IN IF emit THEN Put(st1, Chars("ari:")) ELSE st1

\* ari_text_encode_prefix.
AriTextEncodePrefix(st, hdr) ==
    LET emit == /\ st.scheme_prefix # "NONE"
                /\ st.scheme_prefix = "FIRST" => st.depth <= 0
        st1  == [st EXCEPT !.prefixes =
                    Append(@, [depth |-> st.depth, hdr |-> hdr,
                               scheme_prefix |-> st.scheme_prefix,
                               emitted |-> emit])]
    IN IF emit THEN Put(st1, Chars("ari:")) ELSE st1

\* printf's %PRId64 of a TLC integer.
DecOfSigned(n) == IF n < 0 THEN <<"-">> \o DecOfInt(-n) ELSE DecOfInt(n)

\* ari_text_encode_idseg: the text appended.
AriTextEncodeIdseg(obj) ==
    IF obj.form = "TEXT" THEN Chars(obj.as_text)
    ELSE IF obj.form = "INT" THEN DecOfSigned(obj.as_int)
    ELSE <<>>

\* The enumeration value of the ari_type names used here.
AriTypeNumber(name) ==
    CASE name = "NULL" -> 0 [] name = "BOOL" -> 1 [] name = "UINT" -> 5
      [] name = "TP" -> 12 [] name = "TD" -> 13 [] name = "AC" -> 17
      [] name = "AM" -> 18 [] name = "TBL" -> 19 [] name = "EXECSET" -> 20
      [] name = "RPTSET" -> 21 [] name = "CTRL" -> -3

\* ari_text_encode_aritype: the text appended.  The ari_type is held by
\* its registered name, so ari_type_to_name is the identity here; idseg is
\* a sequence, empty for NULL.
AriTextEncodeAritype(opts, val, idseg) ==
    IF opts.show_ari_type = "TEXT" THEN Chars(val)
    ELSE IF opts.show_ari_type = "INT" THEN DecOfSigned(AriTypeNumber(val))
    ELSE IF idseg # <<>> THEN AriTextEncodeIdseg(idseg[1])
    ELSE Chars(val)

\* The `width` low digits of the TLC integer n in the base, most
\* significant first.
RECURSIVE LowDigits(_, _, _)
LowDigits(n, base, width) ==
    IF width = 0 THEN <<>>
    ELSE LowDigits(n \div base, base, width - 1)
           \o <<Chr(HexUpper(n % base))>>

\* The digits of the TLC integer n > 0 in the base, most significant
\* first.
RECURSIVE DigitsOfInt(_, _)
DigitsOfInt(n, base) ==
    IF n = 0 THEN <<>>
    ELSE DigitsOfInt(n \div base, base) \o <<Chr(HexUpper(n % base))>>

\* The digits of the magnitude value in the base 2 or 16, most significant
\* first, for value > 0: the digits that the loop  value % base,
\* value /= base  leaves, taken 65536 = 2^16 = 16^4 at a time.
RECURSIVE DigitsIn(_, _)
DigitsIn(value, base) ==
    The({(IF dm.q = <<>> THEN DigitsOfInt(dm.r, base)
          ELSE DigitsIn(dm.q, base)
                 \o LowDigits(dm.r, base, IF base = 2 THEN 16 ELSE 4)) :
         dm \in {WDivMod(value, 65536)}})

\* ari_uint64_encode of a magnitude below 2^64: the return code and the
\* text appended.
AriUint64Encode(value, base) ==
    IF base = 2
    THEN [rc |-> 0, text |-> <<"0", "b">>
                      \o (IF value = <<>> THEN <<"0">>
                          ELSE DigitsIn(value, 2))]
    ELSE IF base = 10 THEN [rc |-> 0, text |-> WToDec(value)]
    ELSE IF base = 16
    THEN [rc |-> 0, text |-> <<"0", "x">>
                      \o (IF value = <<>> THEN <<"0">>
                          ELSE DigitsIn(value, 16))]
    ELSE [rc |-> 1, text |-> <<>>]

\* 2^63 and 2^64 as magnitudes.
TwoPow63 == <<5808, 5477, 368, 3372, 922>>
TwoPow64 == <<1616, 955, 737, 6744, 1844>>

\* INT64_MIN.
Int64Min == [neg |-> TRUE, mag |-> TwoPow63]

\* What a build makes of the signed overflow of -INT64_MIN: the negation
\* wraps, or the program is trapped at it.
OverflowBuilds == {"wrap", "trap"}

\* absval = -obj->value.as_int64 for a negative as_int64: the negation is
\* done in int64_t and its result converted to uint64_t.  It overflows
\* for INT64_MIN only.
NegateInt64(v, build) ==
    IF v = Int64Min
    THEN [trapped |-> build = "trap", absval |-> TwoPow63]
    ELSE [trapped |-> FALSE, absval |-> v.mag]

\* The ARI_PRIM_INT64 case of ari_text_encode_lit for the value v, a sign
\* and a magnitude: whether the program was trapped, the return code and
\* the text appended.
EncodeInt64(v, int_base, build) ==
    LET absval == IF v.neg THEN NegateInt64(v, build)
                  ELSE [trapped |-> FALSE, absval |-> v.mag]
        sign   == IF v.neg THEN <<"-">> ELSE <<>>
    IN IF absval.trapped THEN [trapped |-> TRUE, rc |-> 0, text |-> <<>>]
       ELSE The({[trapped |-> FALSE, rc |-> IF uint.rc # 0 THEN 2 ELSE 0,
                  text |-> sign \o uint.text] :
                 uint \in {AriUint64Encode(absval.absval, int_base)}})

\* ari_float64_encode of a float64 given as four 16-bit words: the return
\* code and the text appended.  The finite values printed are 1.5 and 0.
AriFloat64Encode(value, form) ==
    LET inf  == (value[1] % 32768) \div 16 = 2047 /\ ~IsNan(value)
        one5 == value = <<16376, 0, 0, 0>>
        printf == CASE form = "f" -> IF one5 THEN "1.500000" ELSE "0.000000"
                    [] form = "g" -> IF one5 THEN "1.5" ELSE "0"
                    [] form = "e" ->
                         IF one5 THEN "1.500000e+00" ELSE "0.000000e+00"
                    [] form = "a" -> IF one5 THEN "0x1.8p+0" ELSE "0x0p+0"
    IN IF IsNan(value) THEN [rc |-> 0, text |-> Chars("NaN")]
       ELSE IF inf
       THEN [rc |-> 0,
             text |-> (IF value[1] >= 32768 THEN <<"-">> ELSE <<"+">>)
                        \o Chars("Infinity")]
       ELSE IF form \in {"f", "g", "e", "a"}
       THEN [rc |-> 0, text |-> Chars(printf)]
       ELSE [rc |-> 1, text |-> <<>>]

\* decfrac_encode of the timespec <<tv_sec, tv_nsec>>: the text appended.
DecfracEncode(in) == DecOfSigned(in[1]) \o SubsecEncode(in[2])

\* ari_text_is_identity.
AriTextIsIdentity(text) ==
    LET in_len == TextRealLen(text)
        alpha  == (65..90) \cup (97..122) \cup {95}
    IN /\ in_len >= 1
       /\ text[1] \in alpha
       /\ Strspn(text, 2, alpha \cup (48..57) \cup {46, 45}) >= in_len - 1

\* The code points the unicode iterator yields for well-formed UTF-8 bytes.
RECURSIVE Utf8Decode(_)
Utf8Decode(bytes) ==
    IF bytes = <<>> THEN <<>>
    ELSE LET b == bytes[1]
             n == IF b < 192 THEN 1 ELSE IF b < 224 THEN 2
                  ELSE IF b < 240 THEN 3 ELSE 4
             lead == IF n = 1 THEN b ELSE IF n = 2 THEN b % 32
                     ELSE IF n = 3 THEN b % 16 ELSE b % 8
             cont[k \in 1..n] ==
                 IF k = 1 THEN lead ELSE (cont[k - 1] * 64) + (bytes[k] % 64)
         IN <<cont[n]>> \o Utf8Decode(SubSeq(bytes, n + 1, Len(bytes)))

\* ari_data_is_utf8: the last byte is the only zero and the bytes before it
\* are well-formed UTF-8 sequences.
AriDataIsUtf8(in) ==
    LET valid[k \in 1..(Len(in) + 1)] ==
            IF k >= Len(in) THEN k = Len(in)
            ELSE LET b == in[k]
                     n == IF b < 128 THEN 1 ELSE IF b \in 194..223 THEN 2
                          ELSE IF b \in 224..239 THEN 3
                          ELSE IF b \in 240..244 THEN 4 ELSE 0
                 IN /\ n > 0
                    /\ k + n <= Len(in)
                    /\ \A j \in 1..(n - 1) : in[k + j] \in 128..191
                    /\ valid[k + n]
    IN /\ Len(in) > 0
       /\ Strchr(in, 1, 0) = 0 \/ Strchr(in, 1, 0) = Len(in)
       /\ in[Len(in)] = 0
       /\ valid[1]

QuotedTextBad(data, quote) ==
    The({Text(UriPercentEncode(buf \o <<0>>, <<>>, <<>>)) :
         buf \in {CStr(<<quote>> \o escaped \o <<quote>>) :
                  escaped \in {SlashEscape(in, quote) :
                               in \in {IF Len(data) = 0 THEN <<>>
                                       ELSE Utf8Decode(CStr(data))}}}})

\* The quoted, slash-escaped and percent-encoded token of a TSTR ('"') or
\* of a BSTR in raw form ("'"): slash_escape into a buffer between quotes,
\* then ari_text_percent_helper with the uri_safe characters !'+:@
QuotedText(data, quote) ==
    The({Text(UriPercentEncode(buf \o <<0>>, <<>>, <<33, 39, 43, 58, 64>>)) :
         buf \in {CStr(<<quote>> \o escaped \o <<quote>>) :
                  escaped \in {SlashEscape(in, quote) :
                               in \in {IF Len(data) = 0 THEN <<>>
                                       ELSE Utf8Decode(CStr(data))}}}})

\* base16_encode in upper case: the text appended.
Base16Encode(in) ==
    LET hex(k) == IF k % 2 = 1 THEN in[(k + 1) \div 2] \div 16
                  ELSE in[k \div 2] % 16
    IN [k \in 1..(2 * Len(in)) |-> Chr(HexUpper(hex(k)))]

\* The switch on prim_type of ari_text_encode_lit: the return code and the
\* text appended.
\* The buffers a function initialises, clears and moves, in program order.
BufferEvent(op, buf) == [op |-> op, buf |-> buf]

\* slash_escape: the working copy in_text is made by string_init_set_str
\* after the early return for an empty input; the function has no
\* string_clear of it.
SlashEscapeBuffers(in) ==
    IF Len(in) = 0 THEN <<>> ELSE <<BufferEvent("init", "in_text")>>

\* uri_percent_encode: allsafe.
UriPercentEncodeBuffers ==
    <<BufferEvent("init", "allsafe"), BufferEvent("clear", "allsafe")>>

\* ari_text_percent_helper: encodes buf and clears it.
AriTextPercentHelperBuffers ==
    UriPercentEncodeBuffers \o <<BufferEvent("clear", "buf")>>

\* The quoting block of the TSTR and BSTR cases.
QuotedTextBuffers(data) ==
    <<BufferEvent("init", "buf")>> \o SlashEscapeBuffers(data)
        \o AriTextPercentHelperBuffers

\* The buffers of the primitive cases of ari_text_encode_lit.
EncodePrimBuffers(obj, opts) ==
    CASE obj.prim_type = "TSTR" ->
           IF opts.text_identity /\ AriTextIsIdentity(obj.value) THEN <<>>
           ELSE QuotedTextBuffers(obj.value)
      [] obj.prim_type = "BSTR" /\ opts.bstr_form = "RAW" ->
           <<BufferEvent("init", "terminated")>>
             \o (IF AriDataIsUtf8(obj.value \o <<0>>)
                 THEN QuotedTextBuffers(obj.value \o <<0>>) ELSE <<>>)
             \o <<BufferEvent("clear", "terminated")>>
      [] OTHER -> <<>>

\* The buffers that are initialised and neither cleared nor moved after
\* the events from the k-th on, given the ones live before.
RECURSIVE LiveBuffers(_, _, _)
LiveBuffers(events, k, live) ==
    IF k > Len(events) THEN live
    ELSE IF events[k].op = "init"
    THEN LiveBuffers(events, k + 1, Append(live, events[k].buf))
    ELSE LiveBuffers(events, k + 1,
             The({SubSeq(live, 1, i - 1) \o SubSeq(live, i + 1, Len(live)) :
                  i \in {j \in 1..Len(live) :
                           /\ live[j] = events[k].buf
                           /\ \A l \in j + 1..Len(live) :
                                live[l] # events[k].buf}}))

EncodePrim(obj, opts) ==
    LET ok(text) == [rc |-> 0, text |-> text]
        h    == <<"h", "'">> \o Base16Encode(obj.value) \o <<"'">>
    IN CASE obj.prim_type = "UNDEFINED" -> ok(Chars("undefined"))
         [] obj.prim_type = "NULL" -> ok(Chars("null"))
         [] obj.prim_type = "BOOL" ->
              ok(Chars(IF obj.value[1] # 0 THEN "true" ELSE "false"))
         [] obj.prim_type = "UINT64" ->
              The({[rc |-> IF uint.rc # 0 THEN 2 ELSE 0, text |-> uint.text] :
                   uint \in {AriUint64Encode(WOfInt(obj.value[1]),
                                             opts.int_base)}})
         [] obj.prim_type = "INT64" ->
              The({[rc |-> res.rc, text |-> res.text] :
                   res \in {EncodeInt64(SOfInt(obj.value[1]), opts.int_base,
                                        "wrap")}})
         [] obj.prim_type = "FLOAT64" ->
              ok(AriFloat64Encode(obj.value, opts.float_form).text)
         [] obj.prim_type = "TSTR" ->
              IF opts.text_identity /\ AriTextIsIdentity(obj.value)
              THEN ok(Text(CStr(obj.value)))
              ELSE ok(QuotedText(obj.value, 34))
         [] obj.prim_type = "BSTR" ->
              IF opts.bstr_form = "RAW"
              THEN IF AriDataIsUtf8(obj.value \o <<0>>)
                   THEN ok(QuotedText(obj.value \o <<0>>, 39))
                   ELSE ok(h)
              ELSE IF opts.bstr_form = "BASE16" THEN ok(h)
              ELSE ok(Chars("b64'") \o Text(Base64Encode(obj.value, TRUE))
                        \o <<"'">>)
         [] OTHER -> ok(<<>>)


RECURSIVE AriTextEncodeStream(_, _, _, _)

\* Where the ARIs contained in an ARI at hdr stand.
Inside(hdr) == IF hdr = 0 THEN 0 ELSE 2

\* ++(state->depth), counted in st.entered.
Enter(st) == [st EXCEPT !.depth = @ + 1, !.entered = @ + 1]

\* --(state->depth), counted in st.left; st.low is the least depth so far.
Leave(st) ==
    [st EXCEPT !.depth = @ - 1, !.left = @ + 1,
               !.low = IF st.depth - 1 < @ THEN st.depth - 1 ELSE @]

\* The item loop of ari_text_encode_ac, _execset and _report, and of one
\* row of _tbl, from the k-th item on: the state and retval.
RECURSIVE EncodeItems(_, _, _, _, _)
EncodeItems(st, items, k, hdr, opts) ==
    IF k > Len(items) THEN [st |-> st, ret |-> 0]
    ELSE The({(IF res.ret # 0 THEN [st |-> res.st, ret |-> 2]
               ELSE EncodeItems(res.st, items, k + 1, hdr, opts)) :
              res \in {AriTextEncodeStream(
                           IF k > 1 THEN Put(st, <<",">>) ELSE st,
                           items[k], hdr, opts)}})

\* ari_text_encode_ac.
AriTextEncodeAc(st, items, hdr, opts) ==
    The({[st  |-> Put(Leave(res.st), <<")">>),
          ret |-> res.ret] :
         res \in {EncodeItems(Put(Enter(st), <<"(">>),
                              items, 1, hdr, opts)}})

\* The value of a pair of ari_text_encode_am, after the key's result.
EncodeValue(key, value, hdr, opts) ==
    The({[st |-> val.st, ret |-> IF val.ret # 0 THEN 2 ELSE 0] :
         val \in {AriTextEncodeStream(Put(key.st, <<"=">>), value, hdr,
                                      opts)}})

\* The pair loop of ari_text_encode_am from the k-th of the items (key,
\* value, key, value, ...) on.
RECURSIVE EncodePairs(_, _, _, _, _)
EncodePairs(st, items, k, hdr, opts) ==
    IF k > Len(items) THEN [st |-> st, ret |-> 0]
    ELSE The({(IF pair.ret # 0 THEN pair
               ELSE EncodePairs(pair.st, items, k + 2, hdr, opts)) :
              pair \in {(IF key.ret # 0 THEN [st |-> key.st, ret |-> 2]
                         ELSE EncodeValue(key, items[k + 1], hdr, opts)) :
                        key \in {AriTextEncodeStream(
                                     IF k > 1 THEN Put(st, <<",">>) ELSE st,
                                     items[k], hdr, opts)}}})

\* ari_text_encode_am.
AriTextEncodeAm(st, items, hdr, opts) ==
    The({[st  |-> Put(Leave(res.st), <<")">>),
          ret |-> res.ret] :
         res \in {EncodePairs(Put(Enter(st), <<"(">>),
                              items, 1, hdr, opts)}})

RECURSIVE EncodeRows(_, _, _, _, _)

EncodeRowsBad(st, ctr, row_ix, hdr, opts) ==
    IF row_ix >= Len(ctr.items) \div ctr.ncols THEN [st |-> st, ret |-> 0]
    ELSE The({(IF res.ret # 0 THEN [st |-> Put(res.st, <<")">>), ret |-> 2]
               ELSE EncodeRows(Put(res.st, <<")">>), ctr, row_ix + 1, hdr,
                               opts)) :
              res \in {EncodeItems(Put(st, <<"(">>),
                                   SubSeq(ctr.items, row_ix + 1,
                                          row_ix + ctr.ncols),
                                   1, hdr, opts)}})

\* The row loop of ari_text_encode_tbl from row row_ix (counted from 0) on.
EncodeRows(st, ctr, row_ix, hdr, opts) ==
    IF row_ix >= Len(ctr.items) \div ctr.ncols THEN [st |-> st, ret |-> 0]
    ELSE The({(IF res.ret # 0 THEN [st |-> Put(res.st, <<")">>), ret |-> 2]
               ELSE EncodeRows(Put(res.st, <<")">>), ctr, row_ix + 1, hdr,
                               opts)) :
              res \in {EncodeItems(Put(st, <<"(">>),
                                   SubSeq(ctr.items, row_ix * ctr.ncols + 1,
                                          (row_ix + 1) * ctr.ncols),
                                   1, hdr, opts)}})

AriTextEncodeTblBad(st, ctr, hdr, opts) ==
    LET st1 == Enter(Put(st, <<"c", "=">> \o DecOfInt(ctr.ncols)
                               \o <<";">>))
    IN IF ctr.ncols = 0 THEN [st |-> st1, ret |-> 0]
       ELSE The({[st  |-> Leave(res.st), ret |-> res.ret] :
                 res \in {EncodeRows(st1, ctr, 0, hdr, opts)}})

\* ari_text_encode_tbl.
AriTextEncodeTbl(st, ctr, hdr, opts) ==
    LET st1 == Put(st, <<"c", "=">> \o DecOfInt(ctr.ncols) \o <<";">>)
    IN IF ctr.ncols = 0 THEN [st |-> st1, ret |-> 0]
       ELSE The({[st  |-> Leave(res.st), ret |-> res.ret] :
                 res \in {EncodeRows(Enter(st1), ctr, 0, hdr, opts)}})

RECURSIVE EncodeHeader(_, _, _, _, _)

EncodeHeaderBad(st, labels, fields, k, opts) ==
    IF k > Len(fields) THEN st
    ELSE The({EncodeHeader(Put(res.st, <<";">>), labels, fields, k + 1,
                           opts) :
              res \in {AriTextEncodeStream(
                           Put([st EXCEPT !.scheme_prefix = "NONE"],
                               <<labels[k], "=">>),
                           fields[k], 1, opts)}})

\* The header block of ari_text_encode_execset, _report and _rptset: the
\* options are saved, scheme_prefix is set to NONE, each field is encoded
\* after its label and closed with ';' (the result of the encoding is not
\* looked at), and the options are restored.
EncodeHeader(st, labels, fields, k, opts) ==
    IF k > Len(fields) THEN st
    ELSE The({EncodeHeader([Put(res.st, <<";">>) EXCEPT
                               !.scheme_prefix = st.scheme_prefix],
                           labels, fields, k + 1, opts) :
              res \in {AriTextEncodeStream(
                           Put([st EXCEPT !.scheme_prefix = "NONE"],
                               <<labels[k], "=">>),
                           fields[k], 1, opts)}})

\* ari_text_encode_execset.
AriTextEncodeExecset(st, ctr, hdr, opts) ==
    The({AriTextEncodeAc(head, ctr.items, hdr, opts) :
         head \in {EncodeHeader(st, <<"n">>, ctr.hdr, 1, opts)}})

\* ari_text_encode_report.
AriTextEncodeReport(st, rpt, hdr, opts) ==
    The({[st |-> Put(res.st, <<")", ")">>), ret |-> res.ret] :
         res \in {EncodeItems(Put(head, <<"(">>), rpt.items, 1, hdr, opts) :
                  head \in {EncodeHeader(Put(st, <<"(">>), <<"t", "s">>,
                                         rpt.hdr, 1, opts)}}})

\* The report loop of ari_text_encode_rptset from the k-th report on.
RECURSIVE EncodeReports(_, _, _, _, _)
EncodeReports(st, reports, k, hdr, opts) ==
    IF k > Len(reports) THEN [st |-> st, ret |-> 0]
    ELSE The({(IF res.ret # 0 THEN [st |-> res.st, ret |-> 2]
               ELSE EncodeReports(res.st, reports, k + 1, hdr, opts)) :
              res \in {AriTextEncodeReport(st, reports[k], hdr, opts)}})

\* ari_text_encode_rptset.
AriTextEncodeRptset(st, ctr, hdr, opts) ==
    The({[st  |-> Leave(res.st), ret |-> res.ret] :
         res \in {EncodeReports(head, ctr.reports, 1, hdr, opts) :
                  head \in {EncodeHeader(Enter(st), <<"n", "r">>, ctr.hdr, 1,
                                         opts)}}})

\* The timespec <<tv_sec, tv_nsec>> of a literal's value.
Timespec(value) == [sec |-> SOfInt(value[1]), nsec |-> value[2]]

\* ari_text_encode_lit.  The results of the container encoders and of
\* ari_float64_encode are not looked at.  The TP values encoded are before
\* the year 10000, where utctime_encode has one result.  st.payloads
\* records, for each literal, whether the switch on ari_type and the switch
\* on prim_type took a case that writes text, and how much each wrote.
AriTextEncodeLit(st, obj, hdr, opts) ==
    LET st1  == AriTextEncodePrefix(st, hdr)
        st2  == IF obj.has_ari_type
                THEN Put(st1, <<"/">>
                                \o AriTextEncodeAritype(opts, obj.ari_type, <<>>)
                                \o <<"/">>)
                ELSE st1
        kids == Inside(hdr)
        tag  == IF obj.has_ari_type THEN obj.ari_type ELSE ""
        st3  == CASE tag = "TP" ->
                       Put(st2, IF opts.time_text
                                THEN CHOOSE text \in
                                       UtctimeEncode(Timespec(obj.value),
                                                     FALSE) : TRUE
                                ELSE DecfracEncode(obj.value))
                  [] tag = "TD" ->
                       Put(st2, IF opts.time_text
                                THEN TimeperiodEncode(Timespec(obj.value))
                                ELSE DecfracEncode(obj.value))
                  [] tag = "AC" ->
                       AriTextEncodeAc(st2, obj.items, kids, opts).st
                  [] tag = "AM" ->
                       AriTextEncodeAm(st2, obj.items, kids, opts).st
                  [] tag = "TBL" -> AriTextEncodeTbl(st2, obj, kids, opts).st
                  [] tag = "EXECSET" ->
                       AriTextEncodeExecset(st2, obj, kids, opts).st
                  [] tag = "RPTSET" ->
                       AriTextEncodeRptset(st2, obj, kids, opts).st
                  [] OTHER -> st2
        prim == EncodePrim(obj, opts)
        paid == [has_ari_type |-> obj.has_ari_type, ari_type |-> obj.ari_type,
                 prim_type |-> obj.prim_type,
                 by_tag |-> tag \in {"TP", "TD", "AC", "AM", "TBL",
                                     "EXECSET", "RPTSET"},
                 by_prim |-> obj.prim_type \notin {"TIMESPEC", "OTHER"},
                 tag_len |-> Len(st3.out) - Len(st2.out),
                 prim_len |-> Len(prim.text)]
    IN [st |-> [Put(st3, prim.text) EXCEPT
                   !.payloads = Append(@, paid),
                   !.buffers = @ \o EncodePrimBuffers(obj, opts),
                   !.failed = @ \/ prim.rc # 0
                        \/ (obj.prim_type = "FLOAT64"
                              /\ AriFloat64Encode(obj.value,
                                                  opts.float_form).rc # 0)],
        ret |-> prim.rc]

AriTextEncodeObjrefBad(st, obj, hdr, opts) ==
    LET path == obj.objpath
        st1  == Put(AriTextEncodePrefix(st, hdr),
                    <<"/", "/">> \o AriTextEncodeIdseg(path.ns_id) \o <<"/">>)
        st2  == Put(st1, AriTextEncodeIdseg(path.type_id) \o <<"/">>
                           \o AriTextEncodeIdseg(path.obj_id))
        st3  == IF obj.state = "AC"
                THEN AriTextEncodeAc(st2, obj.items, Inside(hdr), opts).st
                ELSE IF obj.state = "AM"
                THEN AriTextEncodeAm(st2, obj.items, Inside(hdr), opts).st
                ELSE st2
    IN [st |-> IF path.type_id.form = "NULL" THEN st1 ELSE st3, ret |-> 0]

\* ari_text_encode_objref.  The results of the parameter encoders are not
\* looked at.
AriTextEncodeObjref(st, obj, hdr, opts) ==
    LET path == obj.objpath
        st1  == Put(AriTextEncodePrefix(st, hdr),
                    <<"/", "/">> \o AriTextEncodeIdseg(path.ns_id) \o <<"/">>)
        type == IF path.has_ari_type
                THEN AriTextEncodeAritype(opts, path.ari_type, <<path.type_id>>)
                ELSE AriTextEncodeIdseg(path.type_id)
        st2  == Put(st1, type \o <<"/">> \o AriTextEncodeIdseg(path.obj_id))
        st3  == IF obj.state = "AC"
                THEN AriTextEncodeAc(st2, obj.items, Inside(hdr), opts).st
                ELSE IF obj.state = "AM"
                THEN AriTextEncodeAm(st2, obj.items, Inside(hdr), opts).st
                ELSE st2
    IN [st |-> IF path.type_id.form = "NULL" THEN st1 ELSE st3, ret |-> 0]

\* ari_text_encode_stream: the result of the encoder it calls is dropped.
\* st.streamed records the ARIs the function is called on.
AriTextEncodeStream(st, ari, hdr, opts) ==
    The({[st |-> IF ari.is_ref
                 THEN AriTextEncodeObjref(st1, ari, hdr, opts).st
                 ELSE AriTextEncodeLit(st1, ari, hdr, opts).st,
          ret |-> 0] :
         st1 \in {[st EXCEPT !.streamed = Append(@, ari)]}})

\* ari_text_encode with the caller's buffer holding `text`: the return
\* code, the buffer afterwards, and the record of the encoder state.
AriTextEncode(text, ari, opts) ==
    LET state == [out |-> <<>>, depth |-> 0, entered |-> 0, left |-> 0,
                  low |-> 0,
                  scheme_prefix |-> opts.scheme_prefix, prefixes |-> <<>>,
                  failed |-> FALSE, streamed |-> <<>>, payloads |-> <<>>,
                  buffers |-> <<BufferEvent("init", "state.out")>>]
    IN The({(IF res.ret # 0 THEN [ret |-> 2, text |-> text, st |-> res.st]
             ELSE [ret |-> 0, text |-> res.st.out,
                   st |-> [res.st EXCEPT
                             !.buffers =
                                @ \o <<BufferEvent("move", "state.out")>>]]) :
            res \in {AriTextEncodeStream(state, ari, 0, opts)}})

(***************************************************************************)
(* The caller of ari_text_encode: a buffer with some text in it, an ARI    *)
(* and an options record, then the call.                                   *)
(***************************************************************************)

EncAris ==
    LET adm   == Idseg("TEXT", "adm", 0)
        do    == Idseg("TEXT", "do", 0)
        ctrl  == ObjPath(adm, Idseg("TEXT", "CTRL", 0), TRUE, "CTRL", do)
        five  == Lit("UINT64", <<5>>)
        minus == Lit("INT64", <<-10>>)
        real  == Lit("FLOAT64", <<16376, 0, 0, 0>>)
        hi    == Lit("TSTR", <<104, 105, 0>>)
        yes   == Lit("BOOL", <<1>>)
        null  == Lit("NULL", <<>>)
        time  == TypedLit("TP", "TIMESPEC", <<86400, 500000000>>)
        period == TypedLit("TD", "TIMESPEC", <<3661, 0>>)
        call  == Ref(ctrl, "AC", <<hi, five>>)
        plain == Ref(ctrl, "NONE", <<>>)
        list  == Container("AC", 0, <<>>, <<yes, plain>>, <<>>)
        exec  == Container("EXECSET", 0, <<five>>, <<plain>>, <<>>)
        rpts  == Container("RPTSET", 0, <<null, time>>, <<>>,
                           <<Report(period, plain, <<yes>>)>>)
    IN {five, minus, real, hi, time, period, call, list,
        Container("EXECSET", 0, <<exec>>, <<plain, five>>, <<>>),
        Container("AC", 0, <<>>, <<exec, plain>>, <<>>),
        Container("RPTSET", 0, <<null, exec>>, <<>>,
                  <<Report(period, plain, <<plain>>)>>),
        Container("EXECSET", 0, <<rpts>>, <<plain>>, <<>>),
        Lit("UNDEFINED", <<>>),
        Lit("TSTR", <<104, 32, 34, 105, 0>>),
        Lit("TSTR", <<0>>),
        Lit("TSTR", <<97, 46, 98, 45, 95, 49, 0>>),
        Lit("TSTR", <<49, 97, 0>>),
        Lit("TSTR", <<97, 33, 37, 126, 92, 0>>),
        Lit("TSTR", <<195, 169, 10, 0>>),
        Lit("BSTR", <<104, 255>>),
        TypedLit("UINT", "UINT64", <<5>>),
        Ref(ObjPath(adm, Idseg("INT", "", -3), FALSE, "", do), "AM",
            <<hi, real>>),
        Ref(ObjPath(adm, Idseg("INT", "", -3), TRUE, "CTRL", do), "AC",
            <<five>>),
        Ref(ObjPath(Idseg("INT", "", 18), Idseg("NULL", "", 0), TRUE, "CTRL",
                    do), "AC", <<five>>),
        Container("AC", 0, <<>>, <<list, null>>, <<>>),
        Container("AM", 0, <<>>, <<five, list, hi, plain>>, <<>>),
        Container("TBL", 2, <<>>, <<five, hi, yes, plain>>, <<>>),
        Container("TBL", 0, <<>>, <<>>, <<>>),
        Container("TBL", 0, <<>>, <<five>>, <<>>),
        Container("TBL", 3, <<>>, <<yes, list, minus>>, <<>>),
        Container("TBL", 1, <<>>, <<hi, five, null>>, <<>>),
        Container("EXECSET", 0, <<five>>, <<call, plain>>, <<>>),
        Container("RPTSET", 0, <<null, time>>, <<>>,
                  <<Report(period, call, <<list, yes>>),
                    Report(period, plain, <<minus>>)>>)}

\* ARI_TEXT_ENC_OPTS_DEFAULT.
AriTextEncOptsDefault ==
    [scheme_prefix |-> "FIRST", show_ari_type |-> "TEXT", int_base |-> 10,
     float_form |-> "g", text_identity |-> TRUE, bstr_form |-> "BASE16",
     time_text |-> TRUE]

\* The options of a call: the default with any scheme_prefix and one other
\* field changed; int_base 8 and float_form 'x' are not supported.
EncOpts ==
    LET d == AriTextEncOptsDefault
        changed == {d, [d EXCEPT !.show_ari_type = "ORIG"],
                    [d EXCEPT !.show_ari_type = "INT"],
                    [d EXCEPT !.int_base = 2], [d EXCEPT !.int_base = 16],
                    [d EXCEPT !.int_base = 8], [d EXCEPT !.float_form = "x"],
                    [d EXCEPT !.text_identity = FALSE],
                    [d EXCEPT !.bstr_form = "RAW"],
                    [d EXCEPT !.bstr_form = "BASE64URL"],
                    [d EXCEPT !.time_text = FALSE]}
    IN {[o EXCEPT !.scheme_prefix = s] :
           o \in changed, s \in {"NONE", "FIRST", "ALL"}}

EncInit ==
    /\ reg = RegIdle
    /\ i64 = I64Idle
    /\ b64 = B64Idle
    /\ pct = PctIdle
    /\ sl = SlIdle
    /\ td = TdIdle
    /\ tp = TpIdle
    /\ alg = AlgIdle
    /\ \E ari \in EncAris, opts \in EncOpts, text \in {<<>>, Chars("old")} :
        enc = [pc |-> "start", ari |-> ari, opts |-> opts, before |-> text,
               text |-> text, ret |-> 0, prefixes |-> <<>>, failed |-> FALSE,
               live |-> <<>>, streamed |-> <<>>, payloads |-> <<>>,
               depth |-> 0, entered |-> 0, left |-> 0, low |-> 0]

EncodeCall ==
    /\ enc.pc = "start"
    /\ \E res \in {AriTextEncode(enc.text, enc.ari, enc.opts)} :
         enc' = [enc EXCEPT !.pc = "done", !.text = res.text,
                            !.ret = res.ret, !.prefixes = res.st.prefixes,
                            !.failed = res.st.failed,
                            !.streamed = res.st.streamed,
                            !.payloads = res.st.payloads,
                            !.depth = res.st.depth,
                            !.entered = res.st.entered,
                            !.left = res.st.left, !.low = res.st.low,
                            !.live = LiveBuffers(res.st.buffers, 1, <<>>)]
    /\ UNCHANGED NotEnc

SpecEnc == EncInit /\ [][EncodeCall]_vars

\* C1: when a sub-codec called during ari_text_encode reports an error,
\* ari_text_encode returns a non-zero code and the caller's text buffer is
\* as it was before the call.
C1_SubCodecErrorAborts ==
    (enc.pc = "done" /\ enc.failed) => (enc.ret # 0 /\ enc.text = enc.before)

\* The ARIs of a finished call that are not a header field and not inside
\* one, and those that are not a header field.
OutsideHeaders == {k \in DOMAIN enc.prefixes : enc.prefixes[k].hdr = 0}

NotHeaderField == {k \in DOMAIN enc.prefixes : enc.prefixes[k].hdr # 1}

\* The NONE and FIRST parts of C4: with NONE the prefix is emitted before
\* no ARI, with FIRST before the root ARI at depth 0 and before no other.
SchemeNoneAndFirst ==
    /\ enc.opts.scheme_prefix = "NONE" =>
         \A k \in DOMAIN enc.prefixes : ~enc.prefixes[k].emitted
    /\ enc.opts.scheme_prefix = "FIRST" =>
         /\ enc.prefixes[1].emitted
         /\ enc.prefixes[1].depth = 0
         /\ \A k \in 2..Len(enc.prefixes) : ~enc.prefixes[k].emitted

AriTypeNames ==
    <<[type |-> 255, name |-> "LITERAL"], [type |-> 0, name |-> "NULL"],
      [type |-> 1, name |-> "BOOL"], [type |-> 2, name |-> "BYTE"],
      [type |-> 4, name |-> "INT"], [type |-> 5, name |-> "UINT"],
      [type |-> 6, name |-> "VAST"], [type |-> 7, name |-> "UVAST"],
      [type |-> 8, name |-> "REAL32"], [type |-> 9, name |-> "REAL64"],
      [type |-> 10, name |-> "TEXTSTR"], [type |-> 11, name |-> "BYTESTR"],
      [type |-> 12, name |-> "TP"], [type |-> 13, name |-> "TD"],
      [type |-> 14, name |-> "LABEL"], [type |-> 15, name |-> "CBOR"],
      [type |-> 16, name |-> "ARITYPE"], [type |-> 17, name |-> "AC"],
      [type |-> 18, name |-> "AM"], [type |-> 19, name |-> "TBL"],
      [type |-> 20, name |-> "EXECSET"], [type |-> 21, name |-> "RPTSET"],
      [type |-> -256, name |-> "OBJECT"], [type |-> -1, name |-> "IDENT"],
      [type |-> -2, name |-> "CONST"], [type |-> -3, name |-> "CTRL"]>>

\* tolower of a character in the C locale.
ToLower(c) ==
    LET upper == Chars("ABCDEFGHIJKLMNOPQRSTUVWXYZ")
        lower == Chars("abcdefghijklmnopqrstuvwxyz")
        at    == {k \in 1..26 : upper[k] = c}
    IN IF at = {} THEN c ELSE lower[CHOOSE k \in at : TRUE]

\* strcasecmp(a, b) == 0.
StrCaseEqual(a, b) ==
    /\ Len(a) = Len(b)
    /\ \A k \in 1..Len(a) :
         ToLower(SubSeq(a, k, k)) = ToLower(SubSeq(b, k, k))

\* The result of a lookup: what is returned and what *typenum holds.
\* No name is "".
Looked(ret, name, typenum) == [ret |-> ret, name |-> name, typenum |-> typenum]

\* The scan of the table from its first entry on: the index of the first
\* of the entries hit, 0 past the end.
ScanTable(hits) ==
    IF hits = {} THEN 0 ELSE CHOOSE k \in hits : \A j \in hits : k <= j

\* ari_type_to_name without ENABLE_LUT_CACHE: the name, "" for NULL.
LinearTypeToName(typenum) ==
    LET curs == ScanTable({k \in DOMAIN AriTypeNames :
                              AriTypeNames[k].type = typenum})
    IN IF curs # 0 THEN AriTypeNames[curs].name ELSE ""

\* ari_type_from_name without ENABLE_LUT_CACHE, with *typenum holding
\* typenum before the call: the value returned is the type of the entry
\* found, or NULL, and *typenum is not written.
LinearTypeFromName(typenum, name) ==
    LET curs == ScanTable({k \in DOMAIN AriTypeNames :
                              StrCaseEqual(AriTypeNames[k].name, name)})
    IN IF curs # 0 THEN Looked(AriTypeNames[curs].type, "", typenum)
       ELSE Looked(0, "", typenum)

\* _ari_type_by_id_get on the dictionary as filled so far: the entries.
DictGetById(id_dict, typenum) == {e \in id_dict : e.type = typenum}

\* _ari_type_by_name_get on the dictionary as filled so far.  The bucket is
\* chosen by the hash of the key's bytes and the keys in the bucket are
\* compared with strcasecmp: a key that differs from a stored name in letter
\* case only is found when same_bucket, that is when the two spellings hash
\* to one bucket.
DictGetByName(name_dict, name, same_bucket) ==
    {e \in name_dict :
        \/ e.name = name
        \/ same_bucket /\ StrCaseEqual(e.name, name)}

\* ari_type_to_name with ENABLE_LUT_CACHE, after pthread_once.
CachedTypeToName(id_dict, typenum) ==
    LET found == DictGetById(id_dict, typenum)
    IN IF found # {} THEN (CHOOSE e \in found : TRUE).name ELSE ""

\* ari_type_from_name with ENABLE_LUT_CACHE, after pthread_once, with
\* *typenum holding typenum before the call.
CachedTypeFromName(name_dict, typenum, name, same_bucket) ==
    LET found == DictGetByName(name_dict, name, same_bucket)
    IN IF found # {} THEN Looked(0, "", (CHOOSE e \in found : TRUE).type)
       ELSE Looked(1, "", typenum)

\* The callers of the registry.
Threads == {1, 2}

\* What a caller asks for: the name of a type, the type of a name, or the
\* type of the name of a type.  *typenum holds 99 before a call.
Requests ==
    [op : {"to_name"}, typenum : {1, 3, -3}, name : {""},
     same_bucket : {FALSE}]
      \cup [op : {"from_name"}, typenum : {99},
            name : {"BOOL", "bool", "null", "nope"}, same_bucket : BOOLEAN]
      \cup [op : {"round_trip"}, typenum : {0, 21}, name : {""},
            same_bucket : {FALSE}]

\* The request answered by the build without ENABLE_LUT_CACHE.
LinearAnswer(req) ==
    CASE req.op = "to_name" ->
           Looked(0, LinearTypeToName(req.typenum), req.typenum)
      [] req.op = "from_name" -> LinearTypeFromName(req.typenum, req.name)
      [] req.op = "round_trip" ->
           LinearTypeFromName(99, LinearTypeToName(req.typenum))

\* The request answered by the build with ENABLE_LUT_CACHE from the
\* dictionaries as they are.
CachedAnswer(id_dict, name_dict, req) ==
    CASE req.op = "to_name" ->
           Looked(0, CachedTypeToName(id_dict, req.typenum), req.typenum)
      [] req.op = "from_name" ->
           CachedTypeFromName(name_dict, req.typenum, req.name,
                              req.same_bucket)
      [] req.op = "round_trip" ->
           CachedTypeFromName(name_dict, 99,
                              CachedTypeToName(id_dict, req.typenum), FALSE)

RegInit ==
    /\ i64 = I64Idle
    /\ b64 = B64Idle
    /\ pct = PctIdle
    /\ sl = SlIdle
    /\ td = TdIdle
    /\ tp = TpIdle
    /\ alg = AlgIdle
    /\ enc = EncIdle
    /\ \E reqs \in [Threads -> Requests] :
         reg = [ctrl |-> "PTHREAD_ONCE_INIT", inits |-> 0, curs |-> 1,
                id_dict |-> {}, name_dict |-> {},
                thr |-> [t \in Threads |->
                            [pc |-> "call", req |-> reqs[t],
                             out |-> Looked(0, "", 0), early |-> FALSE]]]

PthreadOnceBad(t) ==
    /\ reg.thr[t].pc = "call"
    /\ IF reg.ctrl = "PTHREAD_ONCE_INIT"
       THEN reg' = [reg EXCEPT !.ctrl = "running", !.inits = @ + 1,
                               !.curs = 1, !.id_dict = {}, !.name_dict = {},
                               !.thr[t].pc = "init"]
       ELSE reg' = [reg EXCEPT !.thr[t].pc = "lookup"]
    /\ UNCHANGED NotReg

\* pthread_once(&_ari_type_dict_ctrl, _ari_type_dict_init) of a caller: the
\* first caller starts the initializer, a caller that finds it running
\* waits, and a caller that finds it complete goes on.  The initializer
\* starts with _ari_type_by_id_init and _ari_type_by_name_init.
PthreadOnce(t) ==
    /\ reg.thr[t].pc = "call"
    /\ reg.ctrl # "running"
    /\ IF reg.ctrl = "PTHREAD_ONCE_INIT"
       THEN reg' = [reg EXCEPT !.ctrl = "running", !.inits = @ + 1,
                               !.curs = 1, !.id_dict = {}, !.name_dict = {},
                               !.thr[t].pc = "init"]
       ELSE reg' = [reg EXCEPT !.thr[t].pc = "lookup"]
    /\ UNCHANGED NotReg

\* One round of the loop of _ari_type_dict_init: the entry at curs is set
\* in both dictionaries.
DictInitStep(t) ==
    /\ reg.thr[t].pc = "init"
    /\ reg.curs <= Len(AriTypeNames)
    /\ reg' = [reg EXCEPT !.id_dict = @ \cup {AriTypeNames[reg.curs]},
                          !.name_dict = @ \cup {AriTypeNames[reg.curs]},
                          !.curs = @ + 1]
    /\ UNCHANGED NotReg

\* _ari_type_dict_init returns and pthread_once marks it complete.
DictInitReturn(t) ==
    /\ reg.thr[t].pc = "init"
    /\ reg.curs > Len(AriTypeNames)
    /\ reg' = [reg EXCEPT !.ctrl = "done", !.thr[t].pc = "lookup"]
    /\ UNCHANGED NotReg

\* The dictionary reads of ari_type_to_name and ari_type_from_name and
\* their return; early records a read before the initializer completed.
TypeLookup(t) ==
    /\ reg.thr[t].pc = "lookup"
    /\ reg' = [reg EXCEPT
                  !.thr[t].pc = "done",
                  !.thr[t].out = CachedAnswer(reg.id_dict, reg.name_dict,
                                              reg.thr[t].req),
                  !.thr[t].early = reg.ctrl # "done"]
    /\ UNCHANGED NotReg

RegNext ==
    \E t \in Threads :
        \/ PthreadOnce(t)
        \/ DictInitStep(t)
        \/ DictInitReturn(t)
        \/ TypeLookup(t)

SpecReg == RegInit /\ [][RegNext]_vars

\* C13: the build with ENABLE_LUT_CACHE and the build that scans the table
\* answer alike: ari_type_to_name returns the same name or nothing for
\* every type, ari_type_from_name returns the same code and leaves the same
\* value in *typenum for every name in any letter case, and
\* ari_type_from_name of ari_type_to_name of a registered type returns 0
\* and that type, in both.
C13_BuildsAgree ==
    \A t \in Threads :
        reg.thr[t].pc = "done" =>
            LET req    == reg.thr[t].req
                linear == LinearAnswer(req)
                cached == reg.thr[t].out
            IN /\ cached = linear
               /\ req.op = "round_trip" =>
                    /\ linear.ret = 0 /\ linear.typenum = req.typenum
                    /\ cached.ret = 0 /\ cached.typenum = req.typenum

\* C14: under any interleaving of the callers of ari_type_to_name and
\* ari_type_from_name, _ari_type_dict_init runs exactly once and no caller
\* reads the dictionaries before it has completed.
C14_SingleInitBeforeAnyRead ==
    /\ reg.inits <= 1
    /\ \A t \in Threads :
         /\ reg.thr[t].pc = "done" =>
              /\ reg.inits = 1
              /\ ~reg.thr[t].early
              /\ reg.id_dict = Range(AriTypeNames)
         /\ reg.thr[t].pc = "lookup" => reg.ctrl = "done"

\* Both callers have returned; one of them ran the initializer while the
\* other had called and waited.
C14_Witness ==
    /\ \A t \in Threads : reg.thr[t].pc = "done"
    /\ reg.inits = 1
    /\ reg.ctrl = "done"
    /\ Cardinality(reg.name_dict) = Len(AriTypeNames)
    /\ reg.thr[1].out.name = "BOOL"
    /\ reg.thr[2].out.typenum = 21


\* The text of the path of the reference encoded by the call, after the
\* scheme prefix: `//<ns_id>/<type>/<obj_id>` with the ari_type rendered by
\* the show_ari_type policy (the canonical name for TEXT, the decimal
\* enumeration for INT, the stored type_id for ORIG).
FullPathText ==
    LET path == enc.ari.objpath
        seg(id) == CASE id.form = "TEXT" -> Chars(id.as_text)
                     [] id.form = "INT" -> DecOfSigned(id.as_int)
                     [] id.form = "NULL" -> <<>>
        code == AriTypeNames[CHOOSE k \in DOMAIN AriTypeNames :
                                 AriTypeNames[k].name = path.ari_type].type
        type == CASE enc.opts.show_ari_type = "TEXT" -> Chars(path.ari_type)
                  [] enc.opts.show_ari_type = "INT" -> DecOfSigned(code)
                  [] enc.opts.show_ari_type = "ORIG" -> seg(path.type_id)
    IN Chars("//") \o seg(path.ns_id) \o <<"/">> \o type \o <<"/">>
         \o seg(path.obj_id)

\* The encoded text is the scheme prefix of the root and the path, followed
\* by the parameters of the reference.
EmitsPathAndParams(path_text) ==
    LET head == (IF enc.opts.scheme_prefix = "NONE" THEN <<>>
                 ELSE Chars("ari:")) \o path_text
    IN /\ Len(enc.text) >= Len(head)
       /\ SubSeq(enc.text, 1, Len(head)) = head
       /\ enc.ari.state = "NONE" => enc.text = head
       /\ enc.ari.state # "NONE" =>
            /\ Len(enc.text) > Len(head) + 1
            /\ enc.text[Len(head) + 1] = "("
            /\ enc.text[Len(enc.text)] = ")"

\* A finished call that encoded a reference whose path has has_ari_type.
TypedRefEncoded ==
    enc.pc = "done" /\ enc.ari.is_ref /\ enc.ari.objpath.has_ari_type

\* C15, as stated: for a reference whose path has has_ari_type, whatever
\* the form of its type_id, the encoder emits the full path
\* `//<ns_id>/<type>/<obj_id>` followed by its parameters.
C15_TypedRefFullPathAnyForm ==
    TypedRefEncoded => EmitsPathAndParams(FullPathText)

\* C15, amended: for a reference whose path has has_ari_type and a type_id
\* of TEXT or INT form, the encoder emits the full path
\* `//<ns_id>/<type>/<obj_id>` followed by its parameters; with a type_id
\* of NULL form it emits `//<ns_id>/` and nothing else.
C15_TypedRefFullPath ==
    TypedRefEncoded =>
        IF enc.ari.objpath.type_id.form = "NULL"
        THEN enc.text = (IF enc.opts.scheme_prefix = "NONE" THEN <<>>
                         ELSE Chars("ari:"))
                          \o Chars("//")
                          \o AriTextEncodeIdseg(enc.ari.objpath.ns_id)
                          \o <<"/">>
        ELSE EmitsPathAndParams(FullPathText)

\* The reference with type_id -3 and ari_type CTRL encoded with
\* show_ari_type TEXT and with its parameter.
C15_Witness ==
    /\ TypedRefEncoded
    /\ enc.ari.objpath.type_id.form = "INT"
    /\ enc.opts.show_ari_type = "TEXT"
    /\ enc.opts.scheme_prefix = "FIRST"
    /\ enc.text = Chars("ari://adm/CTRL/do(5)")


\* The identity test: [A-Za-z_][A-Za-z0-9_.-]* on the bytes without a
\* trailing NUL.
MatchesIdentity(bytes) ==
    LET t == IF bytes # <<>> /\ bytes[Len(bytes)] = 0
             THEN SubSeq(bytes, 1, Len(bytes) - 1) ELSE bytes
        first == (65..90) \cup (97..122) \cup {95}
    IN /\ Len(t) >= 1
       /\ t[1] \in first
       /\ \A k \in 2..Len(t) : t[k] \in first \cup (48..57) \cup {46, 45}

\* The percent-encoding of bytes: the unreserved characters and !'+:@ stay,
\* every other byte becomes %HH.
RECURSIVE PercentOf(_)
PercentOf(bytes) ==
    IF bytes = <<>> THEN <<>>
    ELSE LET b == Head(bytes)
             hex == Chars("0123456789ABCDEF")
             keep == (65..90) \cup (97..122) \cup (48..57)
                       \cup {45, 46, 95, 126} \cup {33, 39, 43, 58, 64}
         IN (IF b \in keep THEN <<Chr(b)>>
             ELSE <<"%", hex[(b \div 16) + 1], hex[(b % 16) + 1]>>)
              \o PercentOf(Tail(bytes))

CellText(item) ==
    AriTextEncode(<<>>, item,
                  [enc.opts EXCEPT !.scheme_prefix =
                      IF @ = "ALL" THEN "ALL" ELSE "NONE"]).text

\* Row r (from 1) of the ncols columns: its cells in parentheses, from item
\* (r - 1) * ncols + 1 of the flat sequence on, with commas between them.
RowText(items, ncols, r) ==
    LET cell(c) == CellText(items[(r - 1) * ncols + c])
        upto[c \in 1..ncols] ==
            IF c = 1 THEN cell(1) ELSE upto[c - 1] \o <<",">> \o cell(c)
    IN <<"(">> \o upto[ncols] \o <<")">>

\* The first k rows, one after the other.
RECURSIVE RowsText(_, _, _)
RowsText(items, ncols, k) ==
    IF k = 0 THEN <<>>
    ELSE RowsText(items, ncols, k - 1) \o RowText(items, ncols, k)

\* C17: a TBL with ncols > 0 and k * ncols items is encoded as `c=<ncols>;`
\* and exactly k parenthesised rows of ncols comma-separated cells each,
\* the items in row-major order and each once; with ncols = 0 it is
\* encoded as `c=0;` only.
C17_TblRowMajor ==
    (enc.pc = "done" /\ ~enc.ari.is_ref /\ enc.ari.has_ari_type
       /\ enc.ari.ari_type = "TBL") =>
        LET ncols == enc.ari.ncols
            items == enc.ari.items
            head  == (IF enc.opts.scheme_prefix = "NONE" THEN <<>>
                      ELSE Chars("ari:"))
                       \o <<"/">> \o AriTextEncodeAritype(enc.opts, "TBL", <<>>)
                       \o <<"/">>
        IN IF ncols = 0 THEN enc.text = head \o Chars("c=0;")
           ELSE Len(items) % ncols = 0 =>
                  enc.text = head \o Chars("c=") \o DecOfInt(ncols) \o <<";">>
                               \o RowsText(items, ncols, Len(items) \div ncols)

\* The table of two columns and two rows encoded with the defaults.
C17_Witness ==
    /\ enc.pc = "done"
    /\ enc.opts = AriTextEncOptsDefault
    /\ enc.ari.ncols = 2
    /\ Len(enc.ari.items) = 4
    /\ enc.text = Chars("ari:/TBL/c=2;(5,hi)(true,//adm/CTRL/do)")


(***************************************************************************)
(* Transient buffers of one ari_text_encode call.                          *)
(***************************************************************************)

\* C18: when ari_text_encode has returned, with success or with failure,
\* every buffer allocated during the call (state.out, buf, allsafe, in_text,
\* the terminated copy of a BSTR) has been released or moved into the
\* caller's text: none remains live.
C18_NoBufferLeftLive == enc.pc = "done" => enc.live = <<>>

\* What the code does: the buffers left live are the in_text copies of
\* slash_escape, one per quoted TSTR and per BSTR printed as raw text.
C18_OnlyInTextLeftLive ==
    enc.pc = "done" => \A k \in 1..Len(enc.live) : enc.live[k] = "in_text"

C18_InTextLeftLive ==
    /\ enc.pc = "done"
    /\ enc.ret = 0
    /\ enc.ari = Lit("TSTR", <<104, 32, 34, 105, 0>>)
    /\ enc.live = <<"in_text">>


(***************************************************************************)
(* The scheme_prefix override of the EXECSET, RPTSET and report headers.   *)
(***************************************************************************)

XDigitValue(ch) ==
    LET upper == <<"0", "1", "2", "3", "4", "5", "6", "7", "8", "9", "A",
                   "B", "C", "D", "E", "F">>
        lower == <<"a", "b", "c", "d", "e", "f">>
    IN IF \E k \in 1..16 : upper[k] = ch
       THEN (CHOOSE k \in 1..16 : upper[k] = ch) - 1
       ELSE IF \E k \in 1..6 : lower[k] = ch
       THEN (CHOOSE k \in 1..6 : lower[k] = ch) + 9
       ELSE 99

\* ULLONG_MAX.
UllongMax == WSub(TwoPow64, <<1>>)

\* One turn of the bit loop of ari_uint64_decode: tmp <<= 1 in uint64_t,
\* then the bit; any other character returns 2.
DecodeBit(acc, bit) ==
    The({(IF res.rc # 0 THEN res
          ELSE IF bit \notin {"0", "1"} THEN [rc |-> 2, tmp |-> res.tmp]
          ELSE The({[rc  |-> 0,
                     tmp |-> IF WLess(x, TwoPow64) THEN x
                             ELSE WSub(x, TwoPow64)] :
                    x \in {WMulSmall(res.tmp, 2, XDigitValue(bit))}})) :
         res \in {acc}})

\* The bit loop over the characters lo..hi, after acc; the turns are
\* taken in the order of the characters.
RECURSIVE DecodeBits(_, _, _, _)
DecodeBits(in, lo, hi, acc) ==
    IF lo > hi THEN acc
    ELSE IF lo = hi THEN DecodeBit(acc, in[lo])
    ELSE The({DecodeBits(in, (lo + hi) \div 2 + 1, hi, first) :
              first \in {DecodeBits(in, lo, (lo + hi) \div 2, acc)}})

\* One turn of the digit loop of strtoull on the character ch, after acc:
\* the value and whether it went beyond ULLONG_MAX.
StrtoullDigit(acc, ch, base) ==
    The({[value |-> IF acc.over \/ ~WLess(x, TwoPow64) THEN acc.value ELSE x,
          over  |-> acc.over \/ ~WLess(x, TwoPow64)] :
         x \in {WMulSmall(acc.value, base, XDigitValue(ch))}})

\* The digit loop of strtoull over the characters lo..hi, after acc; the
\* turns are taken in the order of the characters.
RECURSIVE StrtoullDigits(_, _, _, _, _)
StrtoullDigits(text, lo, hi, base, acc) ==
    IF lo > hi THEN acc
    ELSE IF lo = hi THEN StrtoullDigit(acc, text[lo], base)
    ELSE The({StrtoullDigits(text, (lo + hi) \div 2 + 1, hi, base, first) :
              first \in {StrtoullDigits(text, lo, (lo + hi) \div 2, base,
                                        acc)}})

\* The index of the last of the digits of the base that begin at k, or
\* k - 1 when there is none.
DigitRunEnd(text, k, base) ==
    CHOOSE last \in (k - 1)..Len(text) :
        /\ \A l \in k..last : XDigitValue(text[l]) < base
        /\ XDigitValue(ChAt(text, last + 1)) >= base

\* strtoull(begin, &numend, 0): the value and the number of characters
\* before numend.
Strtoull(text) ==
    LET i    == SkipSpaceS(text, 1)
        j    == IF ChAt(text, i) \in {"+", "-"} THEN i + 1 ELSE i
        hex  == /\ ChAt(text, j) = "0"
                /\ ChAt(text, j + 1) \in {"x", "X"}
                /\ XDigitValue(ChAt(text, j + 2)) < 16
        base == IF hex THEN 16 ELSE IF ChAt(text, j) = "0" THEN 8 ELSE 10
        k    == IF hex THEN j + 2 ELSE j
        none == [value |-> <<>>, over |-> FALSE]
    IN The({(IF last < k THEN [value |-> <<>>, numend |-> 0]
             ELSE The({[value  |-> IF d.over THEN UllongMax
                                   ELSE IF ChAt(text, i) = "-"
                                             /\ d.value # <<>>
                                   THEN WSub(TwoPow64, d.value)
                                   ELSE d.value,
                        numend |-> last] :
                       d \in {StrtoullDigits(text, k, last, base, none)}})) :
            last \in {DigitRunEnd(text, k, base)}})

\* ari_uint64_decode: the return code and *out, which held out before.
AriUint64Decode(out, in) ==
    IF Len(in) >= 2 /\ in[1] = "0" /\ in[2] = "b"
    THEN The({[rc  |-> bits.rc,
               out |-> IF bits.rc = 0 THEN bits.tmp ELSE out] :
              bits \in {DecodeBits(in, 3, Len(in),
                                   [rc |-> 0, tmp |-> <<>>])}})
    ELSE The({(IF res.numend # Len(in) THEN [rc |-> 2, out |-> out]
               ELSE [rc |-> 0, out |-> res.value]) :
              res \in {Strtoull(in)}})

\* The magnitudes of the int64 values encoded: small ones, the limb and
\* word boundaries, and 2^63 - 1.
Int64Magnitudes ==
    {<<>>, <<1>>, <<5>>, <<10>>, <<255>>, <<0, 1>>, <<5536, 6>>,
     <<3647, 4748, 21>>, <<7296, 9496, 42>>, WSub(TwoPow63, <<1>>)}

Int64Values ==
    {[neg |-> FALSE, mag |-> mag] : mag \in Int64Magnitudes}
      \cup {[neg |-> TRUE, mag |-> mag] : mag \in Int64Magnitudes \ {<<>>}}
      \cup {Int64Min}

\* The values of int_base.
IntBases == {2, 10, 16, 8}

\* Texts handed to ari_uint64_decode that no encoder emitted.
DecodeTexts ==
    {Chars(""), Chars("0b"), Chars("0b102"), Chars("12a"), Chars("010"),
     Chars("-1"), Chars(" 42"), Chars("0x"), Chars("0xfF"),
     Chars("18446744073709551616"),
     Chars("0b10000000000000000000000000000000000000000000000000000000000000000")}

\* *out before ari_uint64_decode.
OutBefore == <<99>>

I64Init ==
    /\ b64 = B64Idle
    /\ pct = PctIdle
    /\ sl = SlIdle
    /\ td = TdIdle
    /\ tp = TpIdle
    /\ alg = AlgIdle
    /\ enc = EncIdle
    /\ reg = RegIdle
    /\ \/ \E v \in Int64Values, int_base \in IntBases,
             build \in OverflowBuilds :
            i64 = [pc |-> "encode", v |-> v, int_base |-> int_base,
                   build |-> build, text |-> <<>>, rc |-> 0,
                   out |-> OutBefore, drc |-> 0]
       \/ \E text \in DecodeTexts :
            i64 = [pc |-> "decode", v |-> SOfInt(0), int_base |-> 10,
                   build |-> "wrap", text |-> text, rc |-> 0,
                   out |-> OutBefore, drc |-> 0]

\* The encoder's INT64 case on v.
Int64Encode ==
    /\ i64.pc = "encode"
    /\ \E res \in {EncodeInt64(i64.v, i64.int_base, i64.build)} :
         i64' = [i64 EXCEPT !.pc = IF res.trapped THEN "trapped"
                                  ELSE IF res.rc # 0 THEN "failed"
                                  ELSE "encoded",
                            !.text = res.text, !.rc = res.rc]
    /\ UNCHANGED NotI64

\* The magnitude part of an emitted text.
MagnitudeText(text) ==
    IF text # <<>> /\ text[1] = "-" THEN Tail(text) ELSE text

\* ari_uint64_decode of the magnitude text emitted, or of a text of the
\* caller's.
Uint64Decode ==
    /\ i64.pc \in {"encoded", "decode"}
    /\ \E res \in {AriUint64Decode(i64.out,
                                   IF i64.pc = "encoded"
                                   THEN MagnitudeText(i64.text)
                                   ELSE i64.text)} :
         i64' = [i64 EXCEPT !.pc = IF i64.pc = "encoded" THEN "decoded"
                                  ELSE "parsed",
                            !.out = res.out, !.drc = res.rc]
    /\ UNCHANGED NotI64

I64Next == Int64Encode \/ Uint64Decode

SpecInt == I64Init /\ [][I64Next]_vars

\* The number written by the digits lo..hi in the base, after the number
\* acc written by the digits before them.
RECURSIVE ValueOfDigits(_, _, _, _, _)
ValueOfDigits(digits, lo, hi, base, acc) ==
    IF lo > hi THEN acc
    ELSE IF lo = hi THEN WMulSmall(acc, base, XDigitValue(digits[lo]))
    ELSE The({ValueOfDigits(digits, (lo + hi) \div 2 + 1, hi, base, first) :
              first \in {ValueOfDigits(digits, lo, (lo + hi) \div 2, base,
                                       acc)}})

\* text is the base's prefix and the digits of the magnitude mag, upper
\* case and without leading zeros.
IsUnsignedText(text, mag, base) ==
    LET pre    == IF base = 2 THEN <<"0", "b">>
                  ELSE IF base = 16 THEN <<"0", "x">> ELSE <<>>
        digits == SubSeq(text, Len(pre) + 1, Len(text))
    IN /\ Len(text) > Len(pre)
       /\ SubSeq(text, 1, Len(pre)) = pre
       /\ Len(digits) > 1 => digits[1] # "0"
       /\ \A k \in 1..Len(digits) :
            /\ XDigitValue(digits[k]) < base
            /\ digits[k] \notin {"a", "b", "c", "d", "e", "f"}
       /\ ValueOfDigits(digits, 1, Len(digits), base, <<>>) = mag

\* The INT64 case has returned, or the program was stopped in it.
Int64Encoded ==
    /\ i64.pc \in {"trapped", "failed", "encoded", "decoded"}
    /\ i64.int_base \in {2, 10, 16}

\* The text emitted for v and its decoding are the ones of the sign and
\* the magnitude of v.
Int64SignMagnitude ==
    /\ i64.pc \in {"encoded", "decoded"}
    /\ i64.rc = 0
    /\ i64.v.neg <=> (i64.text # <<>> /\ i64.text[1] = "-")
    /\ IsUnsignedText(MagnitudeText(i64.text), i64.v.mag, i64.int_base)
    /\ i64.pc = "decoded" => (i64.drc = 0 /\ i64.out = i64.v.mag)

\* C20: for every int64 value v and every int_base in {2, 10, 16} the
\* encoder emits `-` exactly when v < 0, followed by the unsigned encoding
\* of the magnitude of v (2^63 for -2^63) as 0b<binary digits>, decimal
\* digits or 0x<upper-case hex digits> without leading zeros, and
\* ari_uint64_decode of the magnitude text returns the magnitude.
C20_Int64SignMagnitude == Int64Encoded => Int64SignMagnitude

\* The same for the values above INT64_MIN, whose negation does not
\* overflow.
Int64SignMagnitudeAboveMin ==
    (Int64Encoded /\ i64.v # Int64Min) => Int64SignMagnitude

\* INT64_MIN is encoded in a build that traps signed overflow.
Int64MinTrapped ==
    /\ i64.pc = "trapped"
    /\ i64.v = Int64Min
    /\ i64.int_base = 10

\* -(2^63 - 1) is encoded in base 16 and decoded.
Int64Decoded ==
    /\ i64.pc = "decoded"
    /\ i64.v = [neg |-> TRUE, mag |-> WSub(TwoPow63, <<1>>)]
    /\ i64.text = Chars("-0x7FFFFFFFFFFFFFFF")
    /\ i64.drc = 0


(***************************************************************************)
(* ari_equal as the relation under which the keys of an AM are unique.     *)
(***************************************************************************)

EqualInit ==
    /\ reg = RegIdle
    /\ i64 = I64Idle
    /\ enc = EncIdle
    /\ b64 = B64Idle
    /\ pct = PctIdle
    /\ sl = SlIdle
    /\ td = TdIdle
    /\ tp = TpIdle
    /\ \E a \in HashAris, b \in HashAris, c \in HashAris :
        alg = [pc |-> "start", a |-> a, b |-> b, c |-> c, ab |-> FALSE,
               ba |-> FALSE, bc |-> FALSE, ac |-> FALSE]

\* The calls ari_equal(a, b), (b, a), (b, c) and (a, c).
EqualCompare ==
    /\ alg.pc = "start"
    /\ alg' = [alg EXCEPT !.pc = "compared",
                          !.ab = AriEqual(alg.a, alg.b),
                          !.ba = AriEqual(alg.b, alg.a),
                          !.bc = AriEqual(alg.b, alg.c),
                          !.ac = AriEqual(alg.a, alg.c)]
    /\ UNCHANGED NotAlg

SpecEqual == EqualInit /\ [][EqualCompare]_vars

\* C25: ari_equal is symmetric and transitive on all ARIs, references
\* whose object paths carry the same type_id and differ in has_ari_type or
\* in ari_type included: ari_equal(a, b) and ari_equal(b, c) imply
\* ari_equal(a, c).
C25_EqualTransitive ==
    alg.pc = "compared" =>
      /\ alg.ab = alg.ba
      /\ (alg.ab /\ alg.bc) => alg.ac

\* What holds of the code: ari_equal is symmetric, and transitive on the
\* ARIs without a reference whose has_ari_type is not set.
RECURSIVE HasUntypedRef(_)
HasUntypedRef(ari) ==
    \/ ari.is_ref /\ ~ari.objpath.has_ari_type
    \/ \E k \in 1..Len(ari.items) : HasUntypedRef(ari.items[k])

EqualTransitiveOnTypedRefs ==
    alg.pc = "compared" =>
      /\ alg.ab = alg.ba
      /\ (/\ alg.ab /\ alg.bc
          /\ \A x \in {alg.a, alg.b, alg.c} : ~HasUntypedRef(x)) => alg.ac

\* A reference with the type_id -3, one with the type_id CTRL and the
\* ari_type, and one with the type_id CTRL alone have been compared.
EqualChainBroken ==
    /\ alg.pc = "compared"
    /\ alg.a.is_ref /\ alg.a.objpath.type_id.form = "INT"
    /\ alg.c.is_ref /\ ~alg.c.objpath.has_ari_type
    /\ alg.ab /\ alg.bc /\ ~alg.ac


(***************************************************************************)
(* ari_visit and ari_text_encode on the same ARI.                          *)
(***************************************************************************)

\* The ARIs walked and encoded.
WalkAris == VisitTrees \cup EncAris

WalkInit ==
    /\ reg = RegIdle
    /\ i64 = I64Idle
    /\ b64 = B64Idle
    /\ pct = PctIdle
    /\ sl = SlIdle
    /\ td = TdIdle
    /\ tp = TpIdle
    /\ \E ari \in WalkAris, cbs \in [2..4 -> BOOLEAN], failAt \in {0, 3} :
        /\ alg = [pc |-> "start", ari |-> ari,
                  visitor |-> [visit_ari |-> TRUE, visit_ref |-> cbs[2],
                               visit_lit |-> cbs[3], visit_objpath |-> cbs[4],
                               failAt |-> failAt, garbage |-> 0],
                  log |-> <<>>, ret |-> 0]
        /\ enc = [pc |-> "start", ari |-> ari, opts |-> AriTextEncOptsDefault,
                  before |-> <<>>, text |-> <<>>, ret |-> 0,
                  prefixes |-> <<>>, failed |-> FALSE, live |-> <<>>,
                  streamed |-> <<>>, payloads |-> <<>>, depth |-> 0,
                  entered |-> 0, left |-> 0, low |-> 0]

WalkNext == VisitCall \/ EncodeCall

SpecWalk == WalkInit /\ [][WalkNext]_vars

\* The ARIs that visit_ari was invoked on, in order.
VisitedAris ==
    LET on(e) == e.cb = "visit_ari"
        calls == SelectSeq(alg.log, on)
    IN [k \in 1..Len(calls) |-> calls[k].ari]

\* The number of times that x occurs in the sequence s.
Count(s, x) == Cardinality({k \in 1..Len(s) : s[k] = x})

NoCallbackAborts == \A k \in 1..Len(alg.log) : alg.log[k].ret = 0

\* C26: when no callback aborts, ari_visit invokes visit_ari once on each
\* ARI that the text encoder serializes, and on no other: AC items, AM keys
\* and values, TBL cells, the EXECSET nonce and targets, the RPTSET nonce
\* and reftime, and the reltime, source and items of each report.
C26_VisitCoversEncoded ==
    (alg.pc = "done" /\ enc.pc = "done" /\ NoCallbackAborts) =>
      \A x \in {VisitedAris[k] : k \in 1..Len(VisitedAris)}
               \cup {enc.streamed[k] : k \in 1..Len(enc.streamed)} :
          Count(VisitedAris, x) = Count(enc.streamed, x)

\* The ARI holds an EXECSET at some level.
RECURSIVE HoldsExecset(_)
HoldsExecset(ari) ==
    \/ ~ari.is_ref /\ ari.has_ari_type /\ ari.ari_type = "EXECSET"
    \/ \E k \in 1..Len(ari.hdr) : HoldsExecset(ari.hdr[k])
    \/ \E k \in 1..Len(ari.items) : HoldsExecset(ari.items[k])
    \/ \E k \in 1..Len(ReportChildren(ari.reports)) :
         HoldsExecset(ReportChildren(ari.reports)[k])

\* The ARI holds a TBL whose item count is not a multiple of ncols, or one
\* with items and ncols 0, or a reference with parameters and no type_id.
RECURSIVE HoldsUnencodedItems(_)
HoldsUnencodedItems(ari) ==
    \/ /\ ~ari.is_ref /\ ari.has_ari_type /\ ari.ari_type = "TBL"
       /\ IF ari.ncols = 0 THEN ari.items # <<>>
          ELSE Len(ari.items) % ari.ncols # 0
    \/ ari.is_ref /\ ari.objpath.type_id.form = "NULL" /\ ari.items # <<>>
    \/ \E k \in 1..Len(ari.hdr) : HoldsUnencodedItems(ari.hdr[k])
    \/ \E k \in 1..Len(ari.items) : HoldsUnencodedItems(ari.items[k])
    \/ \E k \in 1..Len(ReportChildren(ari.reports)) :
         HoldsUnencodedItems(ReportChildren(ari.reports)[k])

\* What holds of the code: away from EXECSET values, incomplete TBL rows
\* and parameters of references without type_id, the ARIs visited are the
\* ARIs encoded, in the same order.
VisitCoversEncodedWithoutExecset ==
    (/\ alg.pc = "done" /\ enc.pc = "done" /\ NoCallbackAborts
     /\ ~HoldsExecset(alg.ari) /\ ~HoldsUnencodedItems(alg.ari)) =>
      VisitedAris = enc.streamed

\* An EXECSET with the nonce 5 was walked and encoded: the encoder wrote
\* the nonce and the walk did not visit it.
ExecsetNonceNotVisited ==
    /\ alg.pc = "done" /\ enc.pc = "done" /\ NoCallbackAborts
    /\ alg.ari.ari_type = "EXECSET"
    /\ alg.ari.hdr = <<Lit("UINT64", <<5>>)>>
    /\ Count(enc.streamed, Lit("UINT64", <<5>>))
         = Count(VisitedAris, Lit("UINT64", <<5>>)) + 1
    /\ Len(enc.streamed) = Len(VisitedAris) + 1


(***************************************************************************)
(* ari_text_encode on any ari_lit_t: every pairing of has_ari_type,        *)
(* ari_type and prim_type that the struct can hold.                        *)
(***************************************************************************)

\* The literals encoded.  The value of a literal is a union: the two
\* numbers are its bytes read as as_timespec, the first as as_uint64.
LitAris ==
    LET five == Lit("UINT64", <<5>>)
        odd  == {Lit("TIMESPEC", <<5, 0>>),
                 Lit("OTHER", <<>>),
                 TypedLit("UINT", "TIMESPEC", <<5, 0>>),
                 TypedLit("TP", "UINT64", <<5, 0>>),
                 TypedLit("TD", "BOOL", <<1, 0>>),
                 TypedLit("TP", "OTHER", <<5, 0>>),
                 [Container("AC", 0, <<>>, <<five>>, <<>>)
                    EXCEPT !.prim_type = "NULL"],
                 [Container("TBL", 0, <<>>, <<>>, <<>>)
                    EXCEPT !.prim_type = "UNDEFINED"]}
    IN {a \in EncAris : ~a.is_ref} \cup odd
         \cup {Container("AC", 0, <<>>, <<x, five>>, <<>>) : x \in odd}

LitInit ==
    /\ reg = RegIdle
    /\ i64 = I64Idle
    /\ b64 = B64Idle
    /\ pct = PctIdle
    /\ sl = SlIdle
    /\ td = TdIdle
    /\ tp = TpIdle
    /\ alg = AlgIdle
    /\ \E ari \in LitAris, opts \in EncOpts :
        enc = [pc |-> "start", ari |-> ari, opts |-> opts, before |-> <<>>,
               text |-> <<>>, ret |-> 0, prefixes |-> <<>>, failed |-> FALSE,
               live |-> <<>>, streamed |-> <<>>, payloads |-> <<>>,
               depth |-> 0, entered |-> 0, left |-> 0, low |-> 0]

SpecLit == LitInit /\ [][EncodeCall]_vars

\* C27: for every literal ari_text_encode_lit emits exactly one payload
\* after the prefix and the type tag: never none (a literal of prim_type
\* TIMESPEC or OTHER has non-empty payload text, with or without a TP, TD
\* or container tag) and never two (a payload selected by the tag is not
\* followed by one selected by prim_type).
C27_ExactlyOnePayload ==
    enc.pc = "done" =>
      \A k \in 1..Len(enc.payloads) :
         LET p == enc.payloads[k]
         IN /\ p.by_tag # p.by_prim
            /\ p.prim_type \in {"TIMESPEC", "OTHER"} => p.tag_len > 0
            /\ p.by_tag => p.prim_len = 0

\* What holds of the code: the tag selects a payload exactly for the seven
\* tags, the prim_type exactly when it is not TIMESPEC or OTHER, each
\* independently of the other; each writes text unless a sub-codec fails.
PayloadsSelectedIndependently ==
    (enc.pc = "done" /\ ~enc.failed) =>
      \A k \in 1..Len(enc.payloads) :
         LET p == enc.payloads[k]
         IN /\ p.by_tag <=> (p.has_ari_type
                               /\ p.ari_type \in {"TP", "TD", "AC", "AM",
                                                   "TBL", "EXECSET",
                                                   "RPTSET"})
            /\ p.by_prim <=> p.prim_type \notin {"TIMESPEC", "OTHER"}
            /\ p.by_tag => p.tag_len > 0
            /\ ~p.by_tag => p.tag_len = 0
            /\ p.by_prim => p.prim_len > 0
            /\ ~p.by_prim => p.prim_len = 0

\* The literal without ari_type and with prim_type TIMESPEC was encoded to
\* the empty text, and the result was 0.
UntaggedTimespecHasNoPayload ==
    /\ enc.pc = "done"
    /\ enc.ari = Lit("TIMESPEC", <<5, 0>>)
    /\ enc.opts.scheme_prefix = "NONE"
    /\ enc.ret = 0
    /\ enc.text = <<>>

\* The literal with ari_type TP and prim_type UINT64 was encoded to the
\* time followed by the integer.
TaggedTimeHasTwoPayloads ==
    /\ enc.pc = "done"
    /\ enc.ari = TypedLit("TP", "UINT64", <<5, 0>>)
    /\ enc.opts = [AriTextEncOptsDefault EXCEPT !.scheme_prefix = "NONE"]
    /\ enc.ret = 0
    /\ enc.text = Chars("/TP/20000101T000005Z5")


\* C28: the depth counter of the encoder is balanced: each increment made
\* on entering an AC, AM, TBL, EXECSET or RPTSET (of a literal or of the
\* parameters of a reference) is matched by one decrement on leaving it,
\* also when something inside failed to encode; depth is never negative
\* and is 0 when ari_text_encode returns.
C28_DepthBalanced ==
    enc.pc = "done" =>
      /\ enc.depth = 0
      /\ enc.low >= 0
      /\ enc.entered = enc.left

\* An encode that entered three containers, wrote an ARI inside two of
\* them nested, and in which a sub-codec failed, has returned.
C28_Witness ==
    /\ enc.pc = "done"
    /\ enc.failed
    /\ enc.entered >= 3
    /\ \E k \in 1..Len(enc.prefixes) : enc.prefixes[k].depth >= 2
    /\ enc.depth = 0


(***************************************************************************)
(* The TZ work-around of utctime_decode in a process with several threads  *)
(* inside the function.  Each call of getenv, setenv, mktime and unsetenv  *)
(* is one step.  tp.tz is the value of TZ ("" when it is not set) and      *)
(* tp.owned tells whether its string was allocated by setenv.  A C library *)
(* may release such a string when the variable is set again; a pointer     *)
(* that getenv returned before is then stale and what is read through it   *)
(* is not determined.                                                      *)
(***************************************************************************)

\* The threads that call utctime_decode.
TzThreads == 1..2

\* The values of TZ before the calls.
TzBefore == {"", "EST5EDT", "UTC"}

\* Whether setenv and unsetenv keep or release the string they replace.
Libcs == {"keeps", "frees"}

TzInit ==
    /\ reg = RegIdle
    /\ i64 = I64Idle
    /\ enc = EncIdle
    /\ b64 = B64Idle
    /\ pct = PctIdle
    /\ sl = SlIdle
    /\ td = TdIdle
    /\ alg = AlgIdle
    /\ \E before \in TzBefore, libc \in Libcs :
        tp = [pc |-> "threads", before |-> before, tz |-> before,
              owned |-> FALSE, libc |-> libc, overlap |-> FALSE,
              th |-> [t \in TzThreads |->
                        [pc |-> "getenv", oldtz |-> "", isnull |-> TRUE,
                         current |-> FALSE, stale |-> FALSE,
                         in_utc |-> FALSE]]]

\* The threads after the string of TZ was replaced: a pointer to it is no
\* longer to the current string, and is stale when the string was released.
Replaced(th) ==
    [t \in TzThreads |->
        IF th[t].current
        THEN [th[t] EXCEPT !.current = FALSE,
                           !.stale = tp.owned /\ tp.libc = "frees"]
        ELSE th[t]]

\* const char *oldtz = getenv("TZ");
TzGetenv(t) ==
    /\ tp.pc = "threads"
    /\ tp.th[t].pc = "getenv"
    /\ tp' = [tp EXCEPT
                !.overlap = @ \/ \E u \in TzThreads :
                                   tp.th[u].pc \in {"setenv", "mktime",
                                                    "restore"},
                !.th[t] = [@ EXCEPT !.pc = "setenv", !.oldtz = tp.tz,
                                    !.isnull = tp.tz = "",
                                    !.current = tp.tz # ""]]
    /\ UNCHANGED NotTp

\* setenv("TZ", "UTC", 1);
TzSetenvUtc(t) ==
    /\ tp.pc = "threads"
    /\ tp.th[t].pc = "setenv"
    /\ tp' = [tp EXCEPT !.tz = "UTC", !.owned = TRUE,
                        !.th = [Replaced(tp.th) EXCEPT ![t].pc = "mktime"]]
    /\ UNCHANGED NotTp

\* fullsec = mktime(&parts);
TzMktime(t) ==
    /\ tp.pc = "threads"
    /\ tp.th[t].pc = "mktime"
    /\ tp' = [tp EXCEPT !.th[t] = [@ EXCEPT !.pc = "restore",
                                            !.in_utc = tp.tz = "UTC"]]
    /\ UNCHANGED NotTp

\* if (oldtz) setenv("TZ", oldtz, 1); else unsetenv("TZ");
TzRestore(t) ==
    /\ tp.pc = "threads"
    /\ tp.th[t].pc = "restore"
    /\ \E read \in (IF tp.th[t].stale THEN {tp.th[t].oldtz, "UTC", "?"}
                     ELSE {tp.th[t].oldtz}) :
         tp' = [tp EXCEPT
                  !.tz = IF tp.th[t].isnull THEN "" ELSE read,
                  !.owned = ~tp.th[t].isnull,
                  !.th = [Replaced(tp.th) EXCEPT ![t].pc = "returned"]]
    /\ UNCHANGED NotTp

TzNext ==
    \E t \in TzThreads :
        TzGetenv(t) \/ TzSetenvUtc(t) \/ TzMktime(t) \/ TzRestore(t)

SpecTz == TzInit /\ [][TzNext]_vars

\* Every call that has passed mktime made it with TZ=UTC, and once all
\* calls have returned TZ is as before the first.
TzKept ==
    /\ \A t \in TzThreads :
         tp.th[t].pc \in {"restore", "returned"} => tp.th[t].in_utc
    /\ (\A t \in TzThreads : tp.th[t].pc = "returned") => tp.tz = tp.before

\* C29: under any interleaving of concurrent utctime_decode calls, each
\* call makes its calendar calculation with TZ=UTC in effect, and once all
\* calls have returned TZ has the value, or the absence, that it had before
\* the first call.
C29_TzRestoredUnderInterleaving == tp.pc = "threads" => TzKept

\* What holds of the code: calls that do not overlap, with a C library
\* that keeps replaced strings, calculate under UTC and restore TZ.
TzKeptWithoutOverlap ==
    (tp.pc = "threads" /\ ~tp.overlap /\ tp.libc = "keeps") => TzKept

\* Both calls have returned with TZ, first EST5EDT, left at UTC, and one of
\* them made its calculation under EST5EDT.
TzLeftAtUtc ==
    /\ tp.pc = "threads"
    /\ tp.before = "EST5EDT"
    /\ tp.libc = "keeps"
    /\ \A t \in TzThreads : tp.th[t].pc = "returned"
    /\ tp.tz = "UTC"
    /\ \E t \in TzThreads : ~tp.th[t].in_utc

\* Two calls one after the other, with a C library that releases replaced
\* strings: the second restored TZ from a stale pointer.
TzStaleWithoutOverlap ==
    /\ tp.pc = "threads"
    /\ ~tp.overlap
    /\ \A t \in TzThreads : tp.th[t].pc = "returned"
    /\ tp.before = "EST5EDT"
    /\ tp.tz = "?"

=============================================================================
